---- MODULE Spec2Model ----
(***************************************************************************)
(* CustomerCareAI orchestrator: the agent contract (BaseAgent.safe_process),*)
(* the conversation context store (ContextManager over the conversations   *)
(* table), the escalation gate and aggregator, and run_pipeline.           *)
(*                                                                         *)
(* Conventions of the translation                                          *)
(*  - Python None of an Optional[model] is the record None.  An absent     *)
(*    Optional[str] identifier is the empty string "": the code tests      *)
(*    identifiers by truthiness (`if conversation_id:`, `x or uuid4()`,    *)
(*    `if request.account_id:`), where None and "" take the same branch.   *)
(*    An Optional[str] text is None or Str(text).                          *)
(*  - sentiment scores are integers in units of 0.00001 (-0.65 is          *)
(*    -65000): round(score, 4) then has something to round away.           *)
(*  - timestamps (datetime.now) are left out of history entries, rows and  *)
(*    responses: nothing in the code reads them back.                      *)
(*  - uuid4() yields an identifier no row and no request holds yet.        *)
(***************************************************************************)
EXTENDS Integers, Sequences, FiniteSets, TLC

VARIABLES
    db,         \* conversations table: conversation id -> Conversation row
    applied,    \* ghost: per conversation, the response_data of every committed update, in commit order
    pc,         \* per request slot: position inside run_pipeline
    frame,      \* per request slot: the locals of run_pipeline (and ghost trace of the call)
    admitted,   \* number of requests that entered run_pipeline so far
    generated,  \* number of uuid4() conversation ids handed out so far
    lastOp,     \* direct ContextManager call harness: the call that returned last, its arguments, the table before its last step, its result
    opCount,    \* direct ContextManager call harness: number of calls made
    calls,      \* direct ContextManager call harness: per caller, the call waiting for its commit
    fnIn,       \* pure-function harness: the arguments
    fnOut,      \* pure-function harness: the result of the last call
    _requests,  \* RateLimitMiddleware._requests: client -> timestamps of its admitted requests still kept
    now,        \* time.time(), in seconds
    lastDispatch,       \* ghost: the last RateLimitMiddleware.dispatch call and its outcome
    admittedAt,         \* ghost: client -> timestamps of every request the limiter admitted, in order
    escalateCalls,      \* requests to /escalate the limiter passed on whose endpoint has not run yet
    _escalation_queue   \* endpoints._escalation_queue

vars == <<db, applied, pc, frame, admitted, generated, lastOp, opCount, calls, fnIn, fnOut,
          _requests, now, lastDispatch, admittedAt, escalateCalls, _escalation_queue>>
storeVars == <<db, applied, generated>>
pipeVars == <<pc, frame, admitted>>
harnessVars == <<lastOp, opCount, calls>>
fnVars == <<fnIn, fnOut>>
limiterVars == <<_requests, now, lastDispatch, admittedAt>>
apiVars == <<_requests, now, lastDispatch, admittedAt, escalateCalls, _escalation_queue>>

-----------------------------------------------------------------------------
(* Bounds of the model *)

NumSlots == 2
NumCallers == 2
MaxReq == 2
MaxSeqReq == 2
MaxTurnReq == 4
MaxCapTurns == 13
MaxStoreOps == 3
MaxTrendIn == 2
MaxUnresolvedIn == 4
MaxNow == 3
MaxDispatch == 4
MaxApiReq == 3
\* the limiter instance the model runs is RateLimitMiddleware(app, max_requests,
\* window_seconds) with these arguments (the application passes 100 and 60)
max_requests == 2
window_seconds == 3

(* Program constants *)

HistoryCap == 20
IntentCap == 10
EmotionCap == 10
sentiment_threshold == -65000
consecutive_required == 2
max_unresolved == 3

trigger_emotions == {"anger", "distress"}
UnresolvedIntents == {"unknown", "unclear", "unresolved"}

-----------------------------------------------------------------------------
(* Values *)

None == [none |-> TRUE]
Str(s) == [str |-> s]

\* s[-n:]
LastN(s, n) == IF Len(s) <= n THEN s ELSE SubSeq(s, Len(s) - n + 1, Len(s))

Min(a, b) == IF a <= b THEN a ELSE b

Abs(n) == IF n < 0 THEN -n ELSE n

RECURSIVE Denominator(_, _)
\* 100000 * 2^k, the least one with n < 2 * it
Denominator(n, D) == IF n >= 2 * D THEN Denominator(n, 2 * D) ELSE D

RECURSIVE Normalized(_, _)
\* n * 2^j, the least one that reaches D (n > 0)
Normalized(n, D) == IF n < D THEN Normalized(2 * n, D) ELSE n

RECURSIVE MantissaTail(_, _, _, _)
\* binary long division of r / D for k more bits of the 53-bit mantissa: where the
\* double ends up against the exact quotient (1 above, -1 below, 0 on it); half a unit
\* in the last place goes to the even mantissa
MantissaTail(r, D, last, k) ==
    IF k = 0
    THEN IF r = 0 THEN 0
         ELSE IF 2 * r > D THEN 1
         ELSE IF 2 * r < D THEN -1
         ELSE IF last = 1 THEN 1 ELSE -1
    ELSE IF 2 * r >= D THEN MantissaTail(2 * r - D, D, 1, k - 1)
         ELSE MantissaTail(2 * r, D, 0, k - 1)

\* the float that stands for n / 100000 (n >= 0) is the nearest IEEE double: 1 when it
\* lies above n / 100000, -1 when below, 0 when n / 100000 is a double
DoubleSide(n) ==
    IF n = 0 THEN 0
    ELSE LET D == Denominator(n, 100000)
         IN  MantissaTail(Normalized(n, D) - D, D, 1, 52)

\* n / d rounded to the nearest integer as round() and the format specs do it (n >= 0,
\* n in units of 0.00001): they round the double's exact value, so on a decimal tie
\* the side of the double decides, and only a tie the double holds exactly goes to the
\* even neighbour
RoundNearest(n, d) ==
    LET q == n \div d
        r == n % d
    IN  IF 2 * r < d THEN q
        ELSE IF 2 * r > d THEN q + 1
        ELSE IF DoubleSide(n) > 0 THEN q + 1
        ELSE IF DoubleSide(n) < 0 THEN q
        ELSE IF q % 2 = 0 THEN q ELSE q + 1

\* f"{x:.2f}" of a score: two decimals, the sign of x kept ("-0.00")
Fmt2(x) ==
    LET h == RoundNearest(Abs(x), 1000)
    IN  (IF x < 0 THEN "-" ELSE "") \o ToString(h \div 100) \o "."
            \o ToString((h % 100) \div 10) \o ToString(h % 10)

RECURSIVE Join(_, _)
\* sep.join(strs)
Join(sep, strs) ==
    IF strs = <<>> THEN ""
    ELSE IF Len(strs) = 1 THEN strs[1]
    ELSE strs[1] \o sep \o Join(sep, Tail(strs))

-----------------------------------------------------------------------------
(* ContextManager and the conversations table *)

\* the context dict a new Conversation row is created with
EmptyContext ==
    [history |-> <<>>, previous_intents |-> <<>>, emotion_trend |-> <<>>,
     turn_count |-> 0, unresolved_turns |-> 0]

\* Conversation(id=..., customer_id=..., channel=..., context={...}); language and
\* is_escalated take their column defaults at INSERT
Conversation(id, customer_id, channel) ==
    [id |-> id, customer_id |-> customer_id, channel |-> channel, language |-> "en",
     context |-> EmptyContext, is_escalated |-> FALSE]

\* result.scalar_one_or_none() of select(Conversation).where(Conversation.id == id)
SelectConversation(table, id) ==
    IF id \in DOMAIN table THEN table[id] ELSE None

\* the dict get_or_create returns for a row it found
LoadedContext(conv) ==
    [conversation_id |-> conv.id, customer_id |-> conv.customer_id, channel |-> conv.channel,
     language |-> conv.language, history |-> conv.context.history,
     previous_intents |-> conv.context.previous_intents,
     emotion_trend |-> conv.context.emotion_trend, is_escalated |-> conv.is_escalated,
     turn_count |-> conv.context.turn_count, unresolved_turns |-> conv.context.unresolved_turns]

\* the dict get_or_create returns for a row it created
CreatedContext(new_id, customer_id, channel) ==
    [conversation_id |-> new_id, customer_id |-> customer_id, channel |-> channel,
     language |-> "en", history |-> <<>>, previous_intents |-> <<>>, emotion_trend |-> <<>>,
     is_escalated |-> FALSE, turn_count |-> 0, unresolved_turns |-> 0]

\* str(uuid.uuid4()): the n-th generated conversation id
Uuid(n) == "u" \o ToString(n)

\* mutant: the increment is forgotten
NextTurnCount_Same(ctx) == ctx.turn_count

\* the turn counter update computes
NextTurnCount(ctx) == ctx.turn_count + 1

\* mutant: only the literal "unknown" counts as unresolved
NextUnresolved_OnlyUnknown(ctx, intent) ==
    IF intent = "unknown" THEN ctx.unresolved_turns + 1 ELSE 0

\* variant of NextUnresolved: the default intent "unknown" does not count as unresolved
NextUnresolved_UnknownResets(ctx, intent) ==
    IF intent \in {"unclear", "unresolved"} THEN ctx.unresolved_turns + 1 ELSE 0

\* the unresolved-turn counter update computes
NextUnresolved(ctx, intent) ==
    IF intent \in UnresolvedIntents THEN ctx.unresolved_turns + 1 ELSE 0

\* variant of AppendedHistory: the assistant entry is appended only when the reply has text
AppendedHistory_SkipEmptyReply(ctx, response_data) ==
    ctx.history \o <<[role |-> "customer", text |-> response_data.customer_message]>>
                \o (IF response_data.response_text # ""
                    THEN <<[role |-> "assistant", text |-> response_data.response_text]>>
                    ELSE <<>>)

\* the history list after update's two appends
AppendedHistory(ctx, response_data) ==
    ctx.history \o <<[role |-> "customer", text |-> response_data.customer_message],
                     [role |-> "assistant", text |-> response_data.response_text]>>

\* mutant: the slices keep the oldest entries (s[:n]) instead of the newest (s[-n:])
UpdatedContext_KeepOldest(ctx, response_data) ==
    [history |-> SubSeq(AppendedHistory(ctx, response_data), 1,
                        Min(HistoryCap, Len(ctx.history) + 2)),
     previous_intents |-> SubSeq(Append(ctx.previous_intents, response_data.intent), 1,
                                 Min(IntentCap, Len(ctx.previous_intents) + 1)),
     emotion_trend |-> SubSeq(Append(ctx.emotion_trend, response_data.dominant_emotion), 1,
                              Min(EmotionCap, Len(ctx.emotion_trend) + 1)),
     turn_count |-> NextTurnCount(ctx),
     unresolved_turns |-> NextUnresolved(ctx, response_data.intent)]

\* the context dict update assigns to conv.context
UpdatedContext(ctx, response_data) ==
    [history |-> LastN(AppendedHistory(ctx, response_data), HistoryCap),
     previous_intents |-> LastN(Append(ctx.previous_intents, response_data.intent), IntentCap),
     emotion_trend |-> LastN(Append(ctx.emotion_trend, response_data.dominant_emotion), EmotionCap),
     turn_count |-> NextTurnCount(ctx),
     unresolved_turns |-> NextUnresolved(ctx, response_data.intent)]

\* the row object after update's assignments, before the commit
UpdatedConversation(conv, response_data) ==
    [conv EXCEPT !.context = UpdatedContext(conv.context, response_data),
                 !.language = response_data.language,
                 !.is_escalated = response_data.escalation_flag]

\* mutant: only the context column is written
CommitUpdate_ContextOnly(table, loaded, new) ==
    [table EXCEPT ![loaded.id] = [@ EXCEPT !.context = new.context]]

\* session.commit() of an updated row: the UPDATE sets the columns whose value differs
\* from the loaded one (the unit of work skips unchanged attributes); context always
\* differs, since turn_count does
CommitUpdate(table, loaded, new) ==
    [table EXCEPT ![loaded.id] =
        [@ EXCEPT !.context = new.context,
                  !.language = IF new.language # loaded.language THEN new.language ELSE @,
                  !.is_escalated =
                      IF new.is_escalated # loaded.is_escalated THEN new.is_escalated ELSE @]]

\* session.add(conv); session.commit() of a new row
CommitInsert(table, conv) == table @@ (conv.id :> conv)

-----------------------------------------------------------------------------
(* Escalation gate and aggregator *)

RECURSIVE Digits(_, _)
\* the k decimals of the fraction frac / 10^k, without trailing zeros
Digits(frac, k) ==
    IF frac = 0 \/ k = 0 THEN ""
    ELSE LET unit == 10 ^ (k - 1)
         IN  ToString(frac \div unit) \o Digits(frac % unit, k - 1)

\* repr() of a float, as an f-string renders it: the shortest decimals, at least one
Repr(x) ==
    (IF x < 0 THEN "-" ELSE "") \o ToString(Abs(x) \div 100000) \o "."
        \o (IF Abs(x) % 100000 = 0 THEN "0" ELSE Digits(Abs(x) % 100000, 5))

ReasonOcsFlag == "Customer explicitly requested human agent."
ReasonIntent == "Intent classified as escalation_request."
ReasonSentiment(score) ==
    "Sentiment score (" \o Fmt2(score) \o ") below threshold ("
        \o Repr(sentiment_threshold) \o ")."
ReasonConsecutive(emotion, count) ==
    "Dominant emotion (" \o emotion \o ") persisted for " \o ToString(count)
        \o " consecutive turns."
ReasonEiaFlag == "Emotional Intelligence Agent triggered escalation."
ReasonCritical(alert_type) == "Critical proactive alert: " \o alert_type \o "."
ReasonUnresolved(unresolved) ==
    "No resolution after " \o ToString(unresolved) \o " consecutive turns (threshold: "
        \o ToString(max_unresolved) \o ")."

RECURSIVE ConsecutiveCount(_)
\* the loop over reversed(emotion_trend_check): trigger emotions at the tail, up to
\* the first other emotion
ConsecutiveCount(emotions) ==
    IF emotions = <<>> THEN 0
    ELSE IF emotions[Len(emotions)] \in trigger_emotions
         THEN 1 + ConsecutiveCount(SubSeq(emotions, 1, Len(emotions) - 1))
         ELSE 0

RECURSIVE FirstCritical(_)
\* the loop over pir_output.proactive_alerts, which breaks at the first critical alert
FirstCritical(alerts) ==
    IF alerts = <<>> THEN <<>>
    ELSE IF Head(alerts).severity = "critical"
         THEN <<ReasonCritical(Head(alerts).alert_type)>>
         ELSE FirstCritical(Tail(alerts))

\* check 1: `if ocs_output and ocs_output.escalation_flag`
OcsFlagCheck(ocs_output) ==
    IF ocs_output # None /\ ocs_output.escalation_flag THEN <<ReasonOcsFlag>> ELSE <<>>

\* check 2: `if ocs_output and ocs_output.intent == "escalation_request"`
IntentCheck(ocs_output) ==
    IF ocs_output # None /\ ocs_output.intent = "escalation_request"
    THEN <<ReasonIntent>> ELSE <<>>

\* check 3: `if eia_output and eia_output.sentiment_score < sentiment_threshold`
SentimentCheck(eia_output) ==
    IF eia_output # None /\ eia_output.sentiment_score < sentiment_threshold
    THEN <<ReasonSentiment(eia_output.sentiment_score)>> ELSE <<>>

\* mutant: the current dominant emotion is not counted with the trend
ConsecutiveCheck_TrendOnly(eia_output, context) ==
    IF eia_output # None
    THEN LET consecutive_count == ConsecutiveCount(context.emotion_trend)
         IN  IF consecutive_count >= consecutive_required
             THEN <<ReasonConsecutive(eia_output.dominant_emotion, consecutive_count)>>
             ELSE <<>>
    ELSE <<>>

\* variant of ConsecutiveCheck: without a sentiment outcome the rule runs on the stored
\* trend alone
ConsecutiveCheck_AbsentCounts(eia_output, context) ==
    LET emotion_trend_check ==
            IF eia_output # None
            THEN Append(context.emotion_trend, eia_output.dominant_emotion)
            ELSE context.emotion_trend
        consecutive_count == ConsecutiveCount(emotion_trend_check)
    IN  IF consecutive_count >= consecutive_required
        THEN <<ReasonConsecutive(emotion_trend_check[Len(emotion_trend_check)],
                                 consecutive_count)>>
        ELSE <<>>

\* check 4: consecutive trigger emotions at the tail of emotion_trend + [dominant_emotion]
ConsecutiveCheck(eia_output, context) ==
    IF eia_output # None
    THEN LET emotion_trend_check ==
                 Append(context.emotion_trend, eia_output.dominant_emotion)
             consecutive_count == ConsecutiveCount(emotion_trend_check)
         IN  IF consecutive_count >= consecutive_required
             THEN <<ReasonConsecutive(eia_output.dominant_emotion, consecutive_count)>>
             ELSE <<>>
    ELSE <<>>

\* check 5: `if eia_output and eia_output.escalation_flag`
EiaFlagCheck(eia_output) ==
    IF eia_output # None /\ eia_output.escalation_flag THEN <<ReasonEiaFlag>> ELSE <<>>

\* check 6: `if pir_output:` first critical alert
CriticalCheck(pir_output) ==
    IF pir_output # None THEN FirstCritical(pir_output.proactive_alerts) ELSE <<>>

\* mutant: the comparison is strict (unresolved > max_unresolved)
UnresolvedCheck_Strict(context) ==
    IF context.unresolved_turns > max_unresolved
    THEN <<ReasonUnresolved(context.unresolved_turns)>> ELSE <<>>

\* variant of UnresolvedCheck: the turn being evaluated is counted as unresolved already
UnresolvedCheck_CountsCurrent(context) ==
    IF context.unresolved_turns + 1 >= max_unresolved
    THEN <<ReasonUnresolved(context.unresolved_turns + 1)>> ELSE <<>>

\* check 7: `if unresolved >= max_unresolved`
UnresolvedCheck(context) ==
    IF context.unresolved_turns >= max_unresolved
    THEN <<ReasonUnresolved(context.unresolved_turns)>> ELSE <<>>

\* mutant: the sentiment agent's flag is checked before the consecutive-emotion rule
EscalationReasons_FlagFirst(ocs_output, eia_output, pir_output, context) ==
    OcsFlagCheck(ocs_output) \o IntentCheck(ocs_output) \o SentimentCheck(eia_output)
        \o EiaFlagCheck(eia_output) \o ConsecutiveCheck(eia_output, context)
        \o CriticalCheck(pir_output) \o UnresolvedCheck(context)

\* the reasons list _check_escalation builds, in the order of its appends
EscalationReasons(ocs_output, eia_output, pir_output, context) ==
    OcsFlagCheck(ocs_output) \o IntentCheck(ocs_output) \o SentimentCheck(eia_output)
        \o ConsecutiveCheck(eia_output, context) \o EiaFlagCheck(eia_output)
        \o CriticalCheck(pir_output) \o UnresolvedCheck(context)

\* (flag, reason) of _check_escalation
_check_escalation(ocs_output, eia_output, pir_output, context) ==
    LET reasons == EscalationReasons(ocs_output, eia_output, pir_output, context)
    IN  IF reasons # <<>>
        THEN [flag |-> TRUE, reason |-> Str(Join(" | ", reasons))]
        ELSE [flag |-> FALSE, reason |-> None]

\* FeedbackAnalysis()
EmptyFeedbackAnalysis ==
    [csat_score |-> None, sentiment_trend |-> None, top_issues |-> <<>>,
     knowledge_gap_flags |-> <<>>]

Skipped == [status |-> "skipped"]
PendingAsync == [status |-> "pending_async"]

\* the AgentLogs aggregate_outputs builds (model_dump() of a present output is the
\* output record itself)
AgentLogs(ocs_output, kfo_output, eia_output, pir_output, fan_output) ==
    [ocs |-> IF ocs_output # None THEN ocs_output ELSE Skipped,
     kfo |-> IF kfo_output # None THEN kfo_output ELSE Skipped,
     eia |-> IF eia_output # None THEN eia_output ELSE Skipped,
     pir |-> IF pir_output # None THEN pir_output ELSE Skipped,
     fan |-> IF fan_output # None THEN fan_output ELSE PendingAsync]

\* the OrchestratorResponse aggregate_outputs returns
aggregate_outputs(interaction_id, customer_id, channel, language, customer_message, context, ocs_output, kfo_output, eia_output, pir_output, fan_output) ==
    LET gate == _check_escalation(ocs_output, eia_output, pir_output, context)
    IN  [interaction_id |-> interaction_id,
         customer_id |-> customer_id,
         channel |-> channel,
         language |-> language,
         response_text |-> IF ocs_output # None THEN ocs_output.response_text ELSE "",
         intent |-> IF ocs_output # None THEN ocs_output.intent ELSE "unknown",
         sentiment_score |-> IF eia_output # None THEN eia_output.sentiment_score ELSE 0,
         dominant_emotion |->
             IF eia_output # None THEN eia_output.dominant_emotion ELSE "neutral",
         escalation_flag |-> gate.flag,
         escalation_reason |-> gate.reason,
         suggested_faq_articles |->
             IF kfo_output # None THEN kfo_output.suggested_faq_articles ELSE <<>>,
         proactive_alerts |-> IF pir_output # None THEN pir_output.proactive_alerts ELSE <<>>,
         feedback_analysis |->
             IF fan_output # None THEN fan_output.feedback_analysis
             ELSE EmptyFeedbackAnalysis,
         agent_logs |-> AgentLogs(ocs_output, kfo_output, eia_output, pir_output, fan_output)]

-----------------------------------------------------------------------------
(* Agent outputs (api/schemas.py) *)

OCSOutput(response_text, intent, escalation_flag, language) ==
    [response_text |-> response_text, intent |-> intent, suggested_faq_ids |-> <<>>,
     escalation_flag |-> escalation_flag, language |-> language]

FAQArticle(article_id) ==
    [article_id |-> article_id, title |-> "title", content_snippet |-> "snippet",
     confidence_score |-> 90]

KFOOutput(suggested_faq_articles) ==
    [suggested_faq_articles |-> suggested_faq_articles, updated_knowledge |-> FALSE]

EIAOutput(sentiment_score, dominant_emotion, escalation_flag) ==
    [sentiment_score |-> sentiment_score, dominant_emotion |-> dominant_emotion,
     escalation_flag |-> escalation_flag, tone_recommendation |-> "neutral"]

ProactiveAlert(alert_type, severity) ==
    [alert_type |-> alert_type, severity |-> severity, recommended_action |-> "review"]

PIROutput(proactive_alerts) == [proactive_alerts |-> proactive_alerts]

FANOutput == [feedback_analysis |-> EmptyFeedbackAnalysis, knowledge_base_update |-> <<>>]

-----------------------------------------------------------------------------
(* BaseAgent.safe_process *)

\* what `await self.process(input_data)` does: raise, or return a value
Raised == [raises |-> TRUE, value |-> None]
Returned(value) == [raises |-> FALSE, value |-> value]

\* a structlog entry; a key the call does not pass (and the logger has not bound) is ""
LogEntry(event, agent, interaction_id) ==
    [event |-> event, agent |-> agent, interaction_id |-> interaction_id]

\* mutant: no except clause, the exception of process reaches the caller
safe_process_NoCatch(agent_name, input_data, outcome) ==
    IF outcome.raises
    THEN [raises |-> TRUE, value |-> None,
          log |-> <<LogEntry("agent_started", agent_name, input_data.interaction_id)>>]
    ELSE [raises |-> FALSE, value |-> outcome.value,
          log |-> <<LogEntry("agent_started", agent_name, input_data.interaction_id),
                    LogEntry("agent_completed", agent_name, input_data.interaction_id)>>]

\* mutant: the result of process is dropped, None is returned on success too
safe_process_AlwaysNone(agent_name, input_data, outcome) ==
    [raises |-> FALSE, value |-> None,
     log |-> <<LogEntry("agent_started", agent_name, input_data.interaction_id),
               LogEntry(IF outcome.raises THEN "agent_failed" ELSE "agent_completed",
                        agent_name, IF outcome.raises THEN "" ELSE input_data.interaction_id)>>]

\* safe_process as its caller sees it: whether it raises, the value it returns, and the
\* log entries it emits; `outcome` is what process does on this call
safe_process(agent_name, input_data, outcome) ==
    IF outcome.raises
    THEN [raises |-> FALSE, value |-> None,
          log |-> <<LogEntry("agent_started", agent_name, input_data.interaction_id),
                    LogEntry("agent_failed", agent_name, "")>>]
    ELSE [raises |-> FALSE, value |-> outcome.value,
          log |-> <<LogEntry("agent_started", agent_name, input_data.interaction_id),
                    LogEntry("agent_completed", agent_name, input_data.interaction_id)>>]

-----------------------------------------------------------------------------
(* The sentiment agent: escalation_policy.check_escalation and EIAAgent.process *)

\* the defaults check_escalation falls back to (no escalation_thresholds.yaml is shipped)
policy_threshold == -65000
policy_consecutive_required == 2
policy_trigger_emotions == {"anger", "distress"}

positive_emotions == {"joy", "surprise", "love"}
negative_emotions == {"anger", "disgust", "fear", "sadness", "distress"}

\* an entry of the dict classify_emotion returns; the dict is the sequence of its
\* entries in insertion order, the scores are rounded to four decimals
Emotion(label, score) == [label |-> label, score |-> score]

RECURSIVE SumOf(_, _)
\* sum(emotions.get(e, 0.0) for e in labels)
SumOf(emotions, labels) ==
    IF emotions = <<>> THEN 0
    ELSE (IF Head(emotions).label \in labels THEN Head(emotions).score ELSE 0)
             + SumOf(Tail(emotions), labels)

Max(a, b) == IF a >= b THEN a ELSE b

\* _compute_sentiment_from_emotions; residue is what the float sums are off the exact
\* decimal sum by (less than 0.00001 in size)
_compute_sentiment_from_emotions(emotions, residue) ==
    LET pos_score == SumOf(emotions, positive_emotions)
        neg_score == SumOf(emotions, negative_emotions)
        sentiment == pos_score - neg_score + residue
    IN  Max(-100000, Min(100000, sentiment))

\* max(emotions, key=emotions.get) if emotions else "neutral": the first entry that
\* holds the greatest score
DominantEmotion(emotions) ==
    IF emotions = <<>> THEN "neutral"
    ELSE LET first == CHOOSE i \in 1..Len(emotions) :
                          /\ \A j \in 1..Len(emotions) : emotions[j].score <= emotions[i].score
                          /\ \A j \in 1..(i - 1) : emotions[j].score < emotions[i].score
         IN  emotions[first].label

\* _get_tone_recommendation: the first range [low, high) of _TONE_MAP that holds the score
_get_tone_recommendation(sentiment_score) ==
    IF -100000 <= sentiment_score /\ sentiment_score < -65000
    THEN "highly empathetic and apologetic"
    ELSE IF -65000 <= sentiment_score /\ sentiment_score < -30000
    THEN "empathetic and understanding"
    ELSE IF -30000 <= sentiment_score /\ sentiment_score < 0
    THEN "warm and supportive"
    ELSE IF 0 <= sentiment_score /\ sentiment_score < 30000
    THEN "neutral and professional"
    ELSE IF 30000 <= sentiment_score /\ sentiment_score < 65000
    THEN "friendly and positive"
    ELSE IF 65000 <= sentiment_score /\ sentiment_score < 100000
    THEN "enthusiastic and celebratory"
    ELSE "neutral and professional"

\* round(x, 4)
Round4(x) == (IF x < 0 THEN -1 ELSE 1) * 10 * RoundNearest(Abs(x), 10)

RECURSIVE PolicyConsecutive(_)
\* the loop over reversed(check_list)
PolicyConsecutive(check_list) ==
    IF check_list = <<>> THEN 0
    ELSE IF check_list[Len(check_list)] \in policy_trigger_emotions
         THEN 1 + PolicyConsecutive(SubSeq(check_list, 1, Len(check_list) - 1))
         ELSE 0

PolicyReasonSentiment(sentiment_score) ==
    "Sentiment score (" \o Fmt2(sentiment_score) \o ") below threshold ("
        \o Repr(policy_threshold) \o ")"
PolicyReasonConsecutive(dominant_emotion, consecutive) ==
    "Trigger emotion '" \o dominant_emotion \o "' detected for " \o ToString(consecutive)
        \o " consecutive turns"

\* variant of check_escalation: the agent's own threshold is lower than the default
check_escalation_LowerThreshold(sentiment_score, dominant_emotion, emotion_history) ==
    LET consecutive == PolicyConsecutive(Append(emotion_history, dominant_emotion))
        reasons ==
            (IF sentiment_score < -70000
             THEN <<PolicyReasonSentiment(sentiment_score)>> ELSE <<>>)
            \o (IF consecutive >= policy_consecutive_required
                THEN <<PolicyReasonConsecutive(dominant_emotion, consecutive)>> ELSE <<>>)
    IN  IF reasons # <<>>
        THEN [flag |-> TRUE, reason |-> Str(Join(" | ", reasons))]
        ELSE [flag |-> FALSE, reason |-> None]

\* escalation_policy.check_escalation: (should_escalate, reason)
check_escalation(sentiment_score, dominant_emotion, emotion_history) ==
    LET consecutive == PolicyConsecutive(Append(emotion_history, dominant_emotion))
        reasons ==
            (IF sentiment_score < policy_threshold
             THEN <<PolicyReasonSentiment(sentiment_score)>> ELSE <<>>)
            \o (IF consecutive >= policy_consecutive_required
                THEN <<PolicyReasonConsecutive(dominant_emotion, consecutive)>> ELSE <<>>)
    IN  IF reasons # <<>>
        THEN [flag |-> TRUE, reason |-> Str(Join(" | ", reasons))]
        ELSE [flag |-> FALSE, reason |-> None]

\* EIAAgent.process from the classifier's result on: the policy is asked about the
\* unrounded score, the output carries the score rounded to four decimals
EIAProcess(emotions, conversation_history, residue) ==
    LET dominant_emotion == DominantEmotion(emotions)
        sentiment_score == _compute_sentiment_from_emotions(emotions, residue)
        policy == check_escalation(sentiment_score, dominant_emotion, conversation_history)
    IN  [EIAOutput(Round4(sentiment_score), dominant_emotion, policy.flag)
            EXCEPT !.tone_recommendation = _get_tone_recommendation(sentiment_score)]

-----------------------------------------------------------------------------
(* RateLimitMiddleware *)

\* self._requests[client_ip] of a defaultdict(list)
RequestsOf(requests, client_ip) ==
    IF client_ip \in DOMAIN requests THEN requests[client_ip] ELSE <<>>

\* self._requests[client_ip] = entries
SetRequests(requests, client_ip, entries) ==
    [c \in DOMAIN requests \cup {client_ip} |->
        IF c = client_ip THEN entries ELSE requests[c]]

\* [ts for ts in entries if t - ts < self.window_seconds]
CleanOld(entries, t) == SelectSeq(entries, LAMBDA ts : t - ts < window_seconds)

\* mutant: old entries are never dropped
dispatch_NoClean(requests, client_ip, t) ==
    IF Len(RequestsOf(requests, client_ip)) >= max_requests
    THEN [status_code |-> 429, call_next |-> FALSE,
          requests |-> SetRequests(requests, client_ip, RequestsOf(requests, client_ip))]
    ELSE [status_code |-> 0, call_next |-> TRUE,
          requests |-> SetRequests(requests, client_ip,
                                   Append(RequestsOf(requests, client_ip), t))]

\* mutant: the ceiling is tested with > instead of >=
dispatch_OffByOne(requests, client_ip, t) ==
    LET kept == CleanOld(RequestsOf(requests, client_ip), t)
    IN  IF Len(kept) > max_requests
        THEN [status_code |-> 429, call_next |-> FALSE,
              requests |-> SetRequests(requests, client_ip, kept)]
        ELSE [status_code |-> 0, call_next |-> TRUE,
              requests |-> SetRequests(requests, client_ip, Append(kept, t))]

\* mutant: the 429 response is built, and the request is passed on all the same
dispatch_PassOn(requests, client_ip, t) ==
    LET kept == CleanOld(RequestsOf(requests, client_ip), t)
    IN  IF Len(kept) >= max_requests
        THEN [status_code |-> 429, call_next |-> TRUE,
              requests |-> SetRequests(requests, client_ip, kept)]
        ELSE [status_code |-> 0, call_next |-> TRUE,
              requests |-> SetRequests(requests, client_ip, Append(kept, t))]

\* variant of dispatch: the timestamp of a rejected request is recorded too
dispatch_RecordRejected(requests, client_ip, t) ==
    LET kept == CleanOld(RequestsOf(requests, client_ip), t)
    IN  IF Len(kept) >= max_requests
        THEN [status_code |-> 429, call_next |-> FALSE,
              requests |-> SetRequests(requests, client_ip, Append(kept, t))]
        ELSE [status_code |-> 0, call_next |-> TRUE,
              requests |-> SetRequests(requests, client_ip, Append(kept, t))]

\* dispatch, up to call_next, for a request of client_ip at time t: the status of the
\* response it builds itself (0: none, the response is the one call_next returns),
\* whether it calls call_next, and self._requests afterwards.  There is no await
\* between reading the clock and the append, so these steps are one step of the event
\* loop.
dispatch(requests, client_ip, t) ==
    LET kept == CleanOld(RequestsOf(requests, client_ip), t)
    IN  IF Len(kept) >= max_requests
        THEN [status_code |-> 429, call_next |-> FALSE,
              requests |-> SetRequests(requests, client_ip, kept)]
        ELSE [status_code |-> 0, call_next |-> TRUE,
              requests |-> SetRequests(requests, client_ip, Append(kept, t))]

NoDispatch ==
    [n |-> 0, path |-> "", client_ip |-> "", at |-> 0, before |-> <<>>, status_code |-> 0]

\* the ghosts of a dispatch call: the call, and the admission it recorded
DispatchGhosts(path, client_ip, res) ==
    /\ lastDispatch' = [n |-> lastDispatch.n + 1, path |-> path, client_ip |-> client_ip,
                        at |-> now,
                        before |-> RequestsOf(admittedAt, client_ip),
                        status_code |-> res.status_code]
    /\ admittedAt' = IF res.call_next
                     THEN SetRequests(admittedAt, client_ip,
                                      Append(RequestsOf(admittedAt, client_ip), now))
                     ELSE admittedAt

\* time passes
Tick ==
    /\ now < MaxNow
    /\ now' = now + 1
    /\ UNCHANGED <<storeVars, pipeVars, harnessVars, fnVars, _requests, lastDispatch,
                   admittedAt, escalateCalls, _escalation_queue>>

\* a whole window passes
WindowPasses ==
    /\ now + window_seconds <= MaxNow
    /\ now' = now + window_seconds
    /\ UNCHANGED <<storeVars, pipeVars, harnessVars, fnVars, _requests, lastDispatch,
                   admittedAt, escalateCalls, _escalation_queue>>

\* a request of client_ip to an endpoint that touches nothing of the model (GET /health)
DispatchOnly(client_ip) ==
    /\ lastDispatch.n < MaxDispatch
    /\ LET res == dispatch(_requests, client_ip, now)
       IN  /\ _requests' = res.requests
           /\ DispatchGhosts("/api/v1/health", client_ip, res)
    /\ UNCHANGED <<storeVars, pipeVars, harnessVars, fnVars, now, escalateCalls,
                   _escalation_queue>>

-----------------------------------------------------------------------------
(* run_pipeline *)

Slots == 1..NumSlots

Agents == {"OCS", "KFO", "EIA", "PIR", "FAN"}

NotInvoked == [invoked |-> FALSE]

\* CustomerRequest (the fields run_pipeline branches on or stores)
CustomerRequest(conversation_id, customer_id, account_id, customer_message, channel) ==
    [conversation_id |-> conversation_id, customer_id |-> customer_id,
     account_id |-> account_id, customer_message |-> customer_message, channel |-> channel]

\* the locals of one run_pipeline call at its start (and ghosts: raw, steps, updates and
\* log trace the call, reasons is the list _check_escalation built for it, status_code
\* is the status of a response the middleware produced itself, 0 when it produced none)
NewFrame(interaction_id, request) ==
    [interaction_id |-> interaction_id, request |-> request, context |-> None,
     ocs_output |-> None, kfo_output |-> None, eia_output |-> None, pir_output |-> None,
     detected_language |-> "en", query_text |-> "", response |-> None, conv |-> None,
     escalation_payload |-> None, background_tasks |-> <<>>, exception |-> "",
     raw |-> [a \in Agents |-> NotInvoked], steps |-> <<>>, updates |-> 0, log |-> <<>>,
     reasons |-> <<>>, status_code |-> 0]

IdleFrame == NewFrame("", None)

\* the response_data dict run_pipeline passes to context_mgr.update
ResponseData(request, response) ==
    [customer_message |-> request.customer_message, response_text |-> response.response_text,
     intent |-> response.intent, dominant_emotion |-> response.dominant_emotion,
     escalation_flag |-> response.escalation_flag, language |-> response.language]

\* EscalationPayload(...) built when response.escalation_flag
EscalationPayload(f) ==
    [interaction_id |-> f.interaction_id, customer_id |-> f.request.customer_id,
     channel |-> f.request.channel,
     escalation_reason |-> f.response.escalation_reason.str,
     conversation_context |-> f.context, summary |-> f.response.response_text]

\* FANInput(...) handed to the background task
FANInput(f) ==
    [interaction_id |-> f.interaction_id, customer_feedback |-> None,
     interaction_log |->
        [customer_message |-> f.request.customer_message,
         response_text |-> f.response.response_text, intent |-> f.response.intent,
         sentiment_score |-> f.response.sentiment_score, history |-> f.context.history]]

\* an exception leaves run_pipeline
Raise(r, exception, step) ==
    /\ pc' = [pc EXCEPT ![r] = "raised"]
    /\ frame' = [frame EXCEPT ![r].exception = exception, ![r].steps = Append(@, step)]

\* the locals once run_pipeline has logged pipeline_started
EnteredFrame(request) ==
    [NewFrame("i" \o ToString(admitted + 1), request) EXCEPT
        !.log = <<LogEntry("pipeline_started", "", "i" \o ToString(admitted + 1))>>]

\* where run_pipeline stands once it has called get_or_create
EnteredAt(request) == IF request.conversation_id # "" THEN "select" ELSE "create"

\* run_pipeline is entered: interaction_id, pipeline_started, get_or_create is called
Admit(r, request) ==
    /\ pc[r] \in {"idle", "done", "raised"}
    /\ admitted' = admitted + 1
    /\ frame' = [frame EXCEPT ![r] = EnteredFrame(request)]
    /\ pc' = [pc EXCEPT ![r] = EnteredAt(request)]
    /\ UNCHANGED <<storeVars, harnessVars, fnVars, apiVars>>

\* get_or_create: the SELECT of a given conversation_id returns
GetOrCreateSelect(r) ==
    /\ pc[r] = "select"
    /\ LET conv == SelectConversation(db, frame[r].request.conversation_id)
       IN  IF conv # None
           THEN /\ frame' = [frame EXCEPT ![r].context = LoadedContext(conv),
                                          ![r].steps = Append(@, "get_or_create")]
                /\ pc' = [pc EXCEPT ![r] = "ocs"]
           ELSE /\ pc' = [pc EXCEPT ![r] = "create"]
                /\ UNCHANGED frame
    /\ UNCHANGED <<storeVars, admitted, harnessVars, fnVars, apiVars>>

\* get_or_create: session.add(conv); await session.commit() of the new row; a row with
\* the same primary key makes the INSERT fail (IntegrityError)
GetOrCreateInsert(r) ==
    /\ pc[r] = "create"
    /\ LET request == frame[r].request
           new_id == IF request.conversation_id # "" THEN request.conversation_id
                     ELSE Uuid(generated + 1)
       IN  IF new_id \in DOMAIN db
           THEN /\ Raise(r, "IntegrityError", "get_or_create")
                /\ UNCHANGED storeVars
           ELSE /\ db' = CommitInsert(db, Conversation(new_id, request.customer_id,
                                                        request.channel))
                /\ applied' = applied @@ (new_id :> <<>>)
                /\ generated' = IF request.conversation_id # "" THEN generated
                                ELSE generated + 1
                /\ frame' = [frame EXCEPT
                                ![r].context = CreatedContext(new_id, request.customer_id,
                                                              request.channel),
                                ![r].steps = Append(@, "get_or_create")]
                /\ pc' = [pc EXCEPT ![r] = "ocs"]
    /\ UNCHANGED <<admitted, harnessVars, fnVars, apiVars>>

\* Step 1: await ocs_agent.safe_process(ocs_input) returns; language and KFO query follow
OcsStep(r, outcome) ==
    /\ pc[r] = "ocs"
    /\ LET f == frame[r]
           res == safe_process("OCS", [interaction_id |-> f.interaction_id], outcome)
       IN  IF res.raises
           THEN Raise(r, "AgentError", "ocs")
           ELSE /\ frame' = [frame EXCEPT
                    ![r].ocs_output = res.value,
                    ![r].detected_language =
                        IF res.value # None THEN res.value.language ELSE "en",
                    ![r].query_text =
                        IF res.value # None
                        THEN res.value.intent \o " " \o f.request.customer_message
                        ELSE f.request.customer_message,
                    ![r].raw = [@ EXCEPT !["OCS"] = outcome],
                    ![r].steps = Append(@, "ocs"),
                    ![r].log = @ \o res.log]
                /\ pc' = [pc EXCEPT ![r] = "kfo"]
    /\ UNCHANGED <<storeVars, admitted, harnessVars, fnVars, apiVars>>

\* Step 2: await kfo_agent.safe_process(kfo_input) returns
KfoStep(r, outcome) ==
    /\ pc[r] = "kfo"
    /\ LET f == frame[r]
           res == safe_process("KFO", [interaction_id |-> f.interaction_id], outcome)
       IN  IF res.raises
           THEN Raise(r, "AgentError", "kfo")
           ELSE /\ frame' = [frame EXCEPT
                    ![r].kfo_output = res.value,
                    ![r].raw = [@ EXCEPT !["KFO"] = outcome],
                    ![r].steps = Append(@, "kfo"),
                    ![r].log = @ \o res.log]
                /\ pc' = [pc EXCEPT ![r] = "eia"]
    /\ UNCHANGED <<storeVars, admitted, harnessVars, fnVars, apiVars>>

\* mutant: the anomaly scan is called whether or not the request has an account_id
AfterEia_AlwaysPir(request) == "pir"

\* mutant: the anomaly scan is never called
AfterEia_NeverPir(request) == "aggregate"

\* pir_output = None; `if request.account_id:` decides whether PIR is called
AfterEia(request) == IF request.account_id # "" THEN "pir" ELSE "aggregate"

\* Step 3: await eia_agent.safe_process(eia_input) returns; PIR is called only with an
\* account_id
EiaStep(r, outcome) ==
    /\ pc[r] = "eia"
    /\ LET f == frame[r]
           res == safe_process("EIA", [interaction_id |-> f.interaction_id], outcome)
       IN  IF res.raises
           THEN Raise(r, "AgentError", "eia")
           ELSE /\ frame' = [frame EXCEPT
                    ![r].eia_output = res.value,
                    ![r].raw = [@ EXCEPT !["EIA"] = outcome],
                    ![r].steps = Append(@, "eia"),
                    ![r].log = @ \o res.log]
                /\ pc' = [pc EXCEPT ![r] = AfterEia(f.request)]
    /\ UNCHANGED <<storeVars, admitted, harnessVars, fnVars, apiVars>>

\* Step 4: await pir_agent.safe_process(pir_input) returns
PirStep(r, outcome) ==
    /\ pc[r] = "pir"
    /\ LET f == frame[r]
           res == safe_process("PIR", [interaction_id |-> f.interaction_id], outcome)
       IN  IF res.raises
           THEN Raise(r, "AgentError", "pir")
           ELSE /\ frame' = [frame EXCEPT
                    ![r].pir_output = res.value,
                    ![r].raw = [@ EXCEPT !["PIR"] = outcome],
                    ![r].steps = Append(@, "pir"),
                    ![r].log = @ \o res.log]
                /\ pc' = [pc EXCEPT ![r] = "aggregate"]
    /\ UNCHANGED <<storeVars, admitted, harnessVars, fnVars, apiVars>>

\* Steps 5 and 6: response = aggregate_outputs(...); context_mgr.update is called
Aggregate(r) ==
    /\ pc[r] = "aggregate"
    /\ LET f == frame[r]
       IN  frame' = [frame EXCEPT
               ![r].response =
                   aggregate_outputs(f.interaction_id, f.request.customer_id,
                                     f.request.channel, f.detected_language,
                                     f.request.customer_message, f.context, f.ocs_output,
                                     f.kfo_output, f.eia_output, f.pir_output, None),
               ![r].reasons = EscalationReasons(f.ocs_output, f.eia_output, f.pir_output,
                                                f.context),
               ![r].steps = Append(@, "aggregate")]
    /\ pc' = [pc EXCEPT ![r] = "update"]
    /\ UNCHANGED <<storeVars, admitted, harnessVars, fnVars, apiVars>>

\* update: the SELECT of the conversation returns; a miss is logged and update returns
UpdateSelect(r) ==
    /\ pc[r] = "update"
    /\ LET conv == SelectConversation(db, frame[r].context.conversation_id)
       IN  IF conv = None
           THEN /\ frame' = [frame EXCEPT ![r].steps = Append(@, "update_miss")]
                /\ pc' = [pc EXCEPT ![r] = "finish"]
           ELSE /\ frame' = [frame EXCEPT ![r].conv = conv]
                /\ pc' = [pc EXCEPT ![r] = "commit"]
    /\ UNCHANGED <<storeVars, admitted, harnessVars, fnVars, apiVars>>

\* update: the row is rewritten from what the SELECT loaded; await session.commit()
UpdateCommit(r) ==
    /\ pc[r] = "commit"
    /\ LET f == frame[r]
           response_data == ResponseData(f.request, f.response)
       IN  /\ db' = CommitUpdate(db, f.conv, UpdatedConversation(f.conv, response_data))
           /\ applied' = [applied EXCEPT ![f.conv.id] = Append(@, response_data)]
    /\ frame' = [frame EXCEPT ![r].steps = Append(@, "update"), ![r].updates = @ + 1]
    /\ pc' = [pc EXCEPT ![r] = "finish"]
    /\ UNCHANGED <<generated, admitted, harnessVars, fnVars, apiVars>>

\* after update: the escalation payload is built and logged, the FAN task is added to
\* background_tasks, and the response is returned
Finish(r) ==
    /\ pc[r] = "finish"
    /\ LET f == frame[r]
       IN  frame' = [frame EXCEPT
               ![r].escalation_payload =
                   IF f.response.escalation_flag THEN EscalationPayload(f) ELSE None,
               ![r].background_tasks = Append(@, FANInput(f)),
               ![r].steps = @ \o <<"schedule_fan", "return">>,
               ![r].log = @ \o (IF f.response.escalation_flag
                                THEN <<LogEntry("escalation_triggered", "", f.interaction_id)>>
                                ELSE <<>>)
                            \o <<LogEntry("pipeline_completed", "", f.interaction_id)>>]
    /\ pc' = [pc EXCEPT ![r] = "returned"]
    /\ UNCHANGED <<storeVars, admitted, harnessVars, fnVars, apiVars>>

\* Step 7: the background task fan_agent.safe_process(fan_input) runs after the response
\* went out; nothing reads its result
FanStep(r, outcome) ==
    /\ pc[r] = "returned"
    /\ LET f == frame[r]
           res == safe_process("FAN", f.background_tasks[1], outcome)
       IN  frame' = [frame EXCEPT
               ![r].background_tasks = Tail(@),
               ![r].exception = IF res.raises THEN "AgentError" ELSE @,
               ![r].raw = [@ EXCEPT !["FAN"] = outcome],
               ![r].steps = Append(@, "fan"),
               ![r].log = @ \o res.log]
    /\ pc' = [pc EXCEPT ![r] = "done"]
    /\ UNCHANGED <<storeVars, admitted, harnessVars, fnVars, apiVars>>

\* the steps of the requests in flight; sc names who may call and what each agent's
\* process may do
PipelineSteps(sc, r) ==
    \/ GetOrCreateSelect(r)
    \/ GetOrCreateInsert(r)
    \/ \E outcome \in sc.ocs : OcsStep(r, outcome)
    \/ \E outcome \in sc.kfo : KfoStep(r, outcome)
    \/ \E outcome \in sc.eia : EiaStep(r, outcome)
    \/ \E outcome \in sc.pir : PirStep(r, outcome)
    \/ Aggregate(r)
    \/ UpdateSelect(r)
    \/ UpdateCommit(r)
    \/ Finish(r)
    \/ \E outcome \in sc.fan : FanStep(r, outcome)

\* run_pipeline called directly: a call is entered, or a call in flight takes a step
PipelineNext(sc) ==
    \E r \in sc.slots :
        \/ /\ admitted < sc.max_requests
           /\ sc.overlap \/ \A q \in Slots : pc[q] \in {"idle", "done", "raised"}
           /\ \A q \in sc.slots : q < r => pc[q] \notin {"idle", "done", "raised"}
           /\ \E request \in sc.requests : Admit(r, request)
        \/ PipelineSteps(sc, r)

NoOp ==
    [op |-> "none", conversation_id |-> "", data |-> None, pre |-> <<>>, ret |-> None,
     exception |-> "", overlapped |-> FALSE, trail |-> <<>>]

\* the callers of the ContextManager, and a caller with no call in flight
Callers == 1..NumCallers
NoCall ==
    [op |-> "none", conversation_id |-> "", customer_id |-> "", channel |-> "",
     data |-> None, conv |-> None, overlapped |-> FALSE]

NotCalled == [fn |-> "none", result |-> None]

\* the state after start-up: an empty table, no request in flight
Init ==
    /\ db = <<>>
    /\ applied = <<>>
    /\ generated = 0
    /\ pc = [r \in Slots |-> "idle"]
    /\ frame = [r \in Slots |-> IdleFrame]
    /\ admitted = 0
    /\ lastOp = NoOp
    /\ opCount = 0
    /\ calls = [k \in Callers |-> NoCall]
    /\ fnIn = None
    /\ fnOut = NotCalled
    /\ _requests = <<>>
    /\ now = 0
    /\ lastDispatch = NoDispatch
    /\ admittedAt = <<>>
    /\ escalateCalls = {}
    /\ _escalation_queue = <<>>

\* requests one after the other: every agent may fail or answer
SeqScenario ==
    [slots |-> {1}, overlap |-> FALSE, max_requests |-> MaxSeqReq,
     requests |-> {CustomerRequest(c, "k1", a, "m1", "chat") : c \in {"", "c1"}, a \in {"", "a1"}},
     ocs |-> {Raised, Returned(OCSOutput("t1", "unknown", FALSE, "en")),
              Returned(OCSOutput("t2", "escalation_request", TRUE, "ar"))},
     kfo |-> {Raised, Returned(KFOOutput(<<FAQArticle("a1")>>))},
     eia |-> {Raised, Returned(EIAOutput(-80000, "anger", TRUE)),
              Returned(EIAOutput(-20000, "distress", FALSE)),
              Returned(EIAOutput(30000, "joy", FALSE))},
     pir |-> {Raised, Returned(PIROutput(<<ProactiveAlert("billing_anomaly", "critical")>>))},
     fan |-> {Raised, Returned(FANOutput)}]

\* requests that overlap in time, on one caller-supplied conversation id
ConcScenario ==
    [slots |-> Slots, overlap |-> TRUE, max_requests |-> MaxReq,
     requests |-> {CustomerRequest("c1", "k1", a, "m1", "chat") : a \in {"", "a1"}},
     ocs |-> {Raised, Returned(OCSOutput("t2", "escalation_request", TRUE, "ar"))},
     kfo |-> {Returned(KFOOutput(<<>>))},
     eia |-> {Returned(EIAOutput(30000, "joy", FALSE))},
     pir |-> {Returned(PIROutput(<<>>))},
     fan |-> {Returned(FANOutput)}]

\* the turns of one conversation, one after the other: the generator fails, cannot
\* resolve the intent or resolves it; the sentiment agent fails or answers, with or
\* without its own flag; the anomaly scan finds nothing
TurnsScenario ==
    [slots |-> {1}, overlap |-> FALSE, max_requests |-> MaxTurnReq,
     requests |-> {CustomerRequest("c1", "k1", "a1", "m1", "chat")},
     ocs |-> {Raised, Returned(OCSOutput("t1", "unknown", FALSE, "en")),
              Returned(OCSOutput("t2", "billing", FALSE, "en"))},
     kfo |-> {Returned(KFOOutput(<<>>))},
     eia |-> {Raised, Returned(EIAOutput(-80000, "anger", TRUE)),
              Returned(EIAOutput(-20000, "distress", FALSE)),
              Returned(EIAOutput(30000, "joy", FALSE))},
     pir |-> {Returned(PIROutput(<<>>))},
     fan |-> {Returned(FANOutput)}]

NextSeq == PipelineNext(SeqScenario)

NextTurns == PipelineNext(TurnsScenario)

\* MaxTurnReq turns of one conversation, none overlapping
SpecTurns == Init /\ [][NextTurns]_vars

NextConc == PipelineNext(ConcScenario)

\* run_pipeline calls that do not overlap in time
SpecSeq == Init /\ [][NextSeq]_vars

\* run_pipeline calls interleaved at their await points
Spec == Init /\ [][NextConc]_vars

-----------------------------------------------------------------------------
(* The application: the limiter in front of the endpoints *)

\* positions of a slot that holds no request in flight
Resting == {"idle", "done", "raised", "unprocessable"}

\* a request body that fails validation against the endpoint's schema
InvalidBody == None

\* POST /interact from client_ip with a body: RateLimitMiddleware.dispatch up to its
\* `return await call_next(request)`.  A request over the ceiling is answered 429 by
\* the middleware and nothing is started for it; another one is handed on, and the
\* endpoint runs in a later step of the event loop.
Interact(r, client_ip, body) ==
    /\ lastDispatch.n < MaxApiReq
    /\ LET res == dispatch(_requests, client_ip, now)
       IN  /\ _requests' = res.requests
           /\ DispatchGhosts("/api/v1/interact", client_ip, res)
           /\ IF res.call_next
              THEN /\ pc[r] \in Resting
                   /\ frame' = [frame EXCEPT ![r] =
                                   [NewFrame("", body) EXCEPT !.status_code = res.status_code]]
                   /\ pc' = [pc EXCEPT ![r] = "dispatched"]
              ELSE UNCHANGED <<pc, frame>>
    /\ UNCHANGED <<storeVars, admitted, harnessVars, fnVars, now, escalateCalls,
                   _escalation_queue>>

\* behind call_next: the body has been read; a body that fails validation is answered
\* 422 and the endpoint is not called, else interact calls run_pipeline, which runs
\* up to its call of get_or_create
InteractEnter(r) ==
    /\ pc[r] = "dispatched"
    /\ IF frame[r].request = InvalidBody
       THEN /\ frame' = [frame EXCEPT ![r].status_code = 422]
            /\ pc' = [pc EXCEPT ![r] = "unprocessable"]
            /\ UNCHANGED admitted
       ELSE /\ admitted' = admitted + 1
            /\ frame' = [frame EXCEPT ![r] = EnteredFrame(frame[r].request)]
            /\ pc' = [pc EXCEPT ![r] = EnteredAt(frame[r].request)]
    /\ UNCHANGED <<storeVars, harnessVars, fnVars, apiVars>>

\* POST /escalate from client_ip: RateLimitMiddleware.dispatch up to its
\* `return await call_next(request)`
Escalate(client_ip, payload) ==
    /\ lastDispatch.n < MaxApiReq
    /\ LET res == dispatch(_requests, client_ip, now)
       IN  /\ _requests' = res.requests
           /\ DispatchGhosts("/api/v1/escalate", client_ip, res)
           /\ escalateCalls' = IF res.call_next
                               THEN escalateCalls \cup
                                       {[n |-> lastDispatch.n + 1, payload |-> payload]}
                               ELSE escalateCalls
    /\ UNCHANGED <<storeVars, pipeVars, harnessVars, fnVars, now, _escalation_queue>>

\* behind call_next: the body has been read and escalate appends the payload to the
\* queue; a body that fails validation is answered 422 and nothing is appended
EscalateEnter(call) ==
    /\ call \in escalateCalls
    /\ escalateCalls' = escalateCalls \ {call}
    /\ _escalation_queue' = IF call.payload = InvalidBody THEN _escalation_queue
                            ELSE Append(_escalation_queue, call.payload)
    /\ UNCHANGED <<storeVars, pipeVars, harnessVars, fnVars, _requests, now, lastDispatch,
                   admittedAt>>

\* a payload some other system posts to /escalate
ExternalPayload(interaction_id) ==
    [interaction_id |-> interaction_id, customer_id |-> "k2", channel |-> "email",
     escalation_reason |-> "Threshold exceeded",
     conversation_context |-> CreatedContext("c9", "k2", "email"), summary |-> ""]

\* the bodies posted to /escalate: each request names an interaction of its own
EscalateBodies == {ExternalPayload("x" \o ToString(lastDispatch.n + 1)), InvalidBody}

\* one client posting to /interact and /escalate; every turn asks for a human agent
ApiScenario ==
    [slots |-> 1..2, client_ip |-> "ip1",
     requests |-> {CustomerRequest("c1", "k1", "a1", "m1", "chat"), InvalidBody},
     ocs |-> {Returned(OCSOutput("t2", "escalation_request", TRUE, "ar"))},
     kfo |-> {Returned(KFOOutput(<<>>))},
     eia |-> {Returned(EIAOutput(30000, "joy", FALSE))},
     pir |-> {Returned(PIROutput(<<>>))},
     fan |-> {Returned(FANOutput)}]

NextApi ==
    \/ WindowPasses
    \/ \E payload \in EscalateBodies : Escalate(ApiScenario.client_ip, payload)
    \/ \E call \in escalateCalls : EscalateEnter(call)
    \/ \E r \in ApiScenario.slots :
          \/ /\ \A q \in ApiScenario.slots : q < r => pc[q] \notin Resting
             /\ \E body \in ApiScenario.requests :
                   Interact(r, ApiScenario.client_ip, body)
          \/ InteractEnter(r)
          \/ PipelineSteps(ApiScenario, r)

\* requests arriving through the middleware in bursts a window apart, interleaved at
\* their await points
SpecApi == Init /\ [][NextApi]_vars

-----------------------------------------------------------------------------
(* The limiter alone *)

Clients == {"ip1", "ip2"}

NextLimiter == Tick \/ \E client_ip \in Clients : DispatchOnly(client_ip)

\* the limiter alone: requests of two clients as time passes
SpecLimiter == Init /\ [][NextLimiter]_vars

-----------------------------------------------------------------------------
(* Direct calls of _check_escalation and aggregate_outputs *)

\* sequences over S of length at most n
SeqsUpTo(S, n) == UNION {[1..k -> S] : k \in 0..n}

EvalOcs ==
    {None} \cup {OCSOutput("t1", i, f, "en") : i \in {"unknown", "escalation_request"},
                                                f \in BOOLEAN}

EvalEia ==
    {None} \cup {EIAOutput(s, e, f) : s \in {-66500, -65010, -65000, 30000}, e \in {"anger", "distress", "joy"},
                                      f \in BOOLEAN}

EvalPir ==
    {None, PIROutput(<<>>), PIROutput(<<ProactiveAlert("usage_spike", "high")>>),
     PIROutput(<<ProactiveAlert("usage_spike", "high"),
                 ProactiveAlert("billing_anomaly", "critical"),
                 ProactiveAlert("churn_risk", "critical")>>)}

EvalKfo == {None, KFOOutput(<<FAQArticle("a1")>>)}

EvalContexts ==
    {[CreatedContext("c1", "k1", "chat") EXCEPT !.emotion_trend = t, !.unresolved_turns = u] :
        t \in SeqsUpTo({"anger", "neutral"}, MaxTrendIn), u \in 0..MaxUnresolvedIn}

\* the harness arguments: every combination of outcomes and contexts
EvalInputs ==
    [ocs_output : EvalOcs, kfo_output : EvalKfo, eia_output : EvalEia,
     pir_output : EvalPir, context : EvalContexts]

\* _check_escalation and aggregate_outputs are about to be called on some arguments
InitEval ==
    /\ db = <<>>
    /\ applied = <<>>
    /\ generated = 0
    /\ pc = [r \in Slots |-> "idle"]
    /\ frame = [r \in Slots |-> IdleFrame]
    /\ admitted = 0
    /\ lastOp = NoOp
    /\ opCount = 0
    /\ calls = [k \in Callers |-> NoCall]
    /\ fnIn \in EvalInputs
    /\ fnOut = NotCalled
    /\ _requests = <<>>
    /\ now = 0
    /\ lastDispatch = NoDispatch
    /\ admittedAt = <<>>
    /\ escalateCalls = {}
    /\ _escalation_queue = <<>>

CallCheckEscalation ==
    /\ fnOut' = [fn |-> "_check_escalation",
                 result |-> _check_escalation(fnIn.ocs_output, fnIn.eia_output,
                                              fnIn.pir_output, fnIn.context)]
    /\ UNCHANGED <<fnIn, storeVars, pipeVars, harnessVars, apiVars>>

CallAggregateOutputs ==
    /\ fnOut' = [fn |-> "aggregate_outputs",
                 result |-> aggregate_outputs("i1", "k1", "chat", "en", "m1", fnIn.context,
                                              fnIn.ocs_output, fnIn.kfo_output,
                                              fnIn.eia_output, fnIn.pir_output, None)]
    /\ UNCHANGED <<fnIn, storeVars, pipeVars, harnessVars, apiVars>>

NextEval == CallCheckEscalation \/ CallAggregateOutputs

\* _check_escalation and aggregate_outputs called on every combination of outcomes
SpecEval == InitEval /\ [][NextEval]_vars

-----------------------------------------------------------------------------
(* The sentiment agent's own outcome handed to the gate *)

\* results of classify_emotion: the fallback's dicts and model results whose
\* sentiment falls on, next to and away from the threshold
EiaEmotions ==
    {<<Emotion("anger", 50000), Emotion("disgust", 30000), Emotion("sadness", 20000)>>,
     <<Emotion("sadness", 40000), Emotion("anger", 30000), Emotion("disgust", 20000),
       Emotion("neutral", 10000)>>,
     <<Emotion("anger", 40000), Emotion("sadness", 25000), Emotion("neutral", 35000)>>,
     <<Emotion("anger", 40010), Emotion("sadness", 25000), Emotion("neutral", 34990)>>,
     <<Emotion("anger", 39990), Emotion("sadness", 25000), Emotion("neutral", 35010)>>,
     <<Emotion("anger", 66500), Emotion("neutral", 33500)>>,
     <<Emotion("distress", 60000), Emotion("joy", 10000), Emotion("neutral", 30000)>>,
     <<Emotion("joy", 70000), Emotion("neutral", 20000), Emotion("surprise", 10000)>>,
     <<Emotion("neutral", 100000)>>,
     <<>>}

\* EIAInput.conversation_history values
EiaHistories == {<<>>, <<"anger">>, <<"m1", "t1">>}

\* what the float sums may be off by, in steps of 0.00001
Residues == {-1, 0, 1}

EiaInputs ==
    [emotions : EiaEmotions, conversation_history : EiaHistories, residue : Residues,
     context : {[CreatedContext("c1", "k1", "chat") EXCEPT !.emotion_trend = t] :
                   t \in {<<>>, <<"anger">>}}]

InitEia ==
    /\ db = <<>>
    /\ applied = <<>>
    /\ generated = 0
    /\ pc = [r \in Slots |-> "idle"]
    /\ frame = [r \in Slots |-> IdleFrame]
    /\ admitted = 0
    /\ lastOp = NoOp
    /\ opCount = 0
    /\ calls = [k \in Callers |-> NoCall]
    /\ fnIn \in EiaInputs
    /\ fnOut = NotCalled
    /\ _requests = <<>>
    /\ now = 0
    /\ lastDispatch = NoDispatch
    /\ admittedAt = <<>>
    /\ escalateCalls = {}
    /\ _escalation_queue = <<>>

\* eia_output = await eia_agent.process(eia_input)
CallEiaProcess ==
    /\ fnOut.fn = "none"
    /\ fnOut' = [fn |-> "EIAAgent.process",
                 result |-> EIAProcess(fnIn.emotions, fnIn.conversation_history,
                                       fnIn.residue)]
    /\ UNCHANGED <<fnIn, storeVars, pipeVars, harnessVars, apiVars>>

\* _check_escalation on the agent's outcome, the other outcomes absent
CallGateOnEia ==
    /\ fnOut.fn = "EIAAgent.process"
    /\ fnOut' = [fn |-> "_check_escalation",
                 result |-> [eia_output |-> fnOut.result,
                             reasons |-> EscalationReasons(None, fnOut.result, None,
                                                           fnIn.context),
                             gate |-> _check_escalation(None, fnOut.result, None,
                                                        fnIn.context)]]
    /\ UNCHANGED <<fnIn, storeVars, pipeVars, harnessVars, apiVars>>

NextEia == CallEiaProcess \/ CallGateOnEia

\* the sentiment agent run on a classifier result, and the gate run on its outcome
SpecEia == InitEia /\ [][NextEia]_vars

-----------------------------------------------------------------------------
(* Direct calls of the ContextManager *)

\* ghost: the two calls that returned before the next one, oldest first
Trail ==
    IF lastOp.op = "none" THEN <<>>
    ELSE LastN(Append(lastOp.trail,
                      [op |-> lastOp.op, conversation_id |-> lastOp.conversation_id,
                       data |-> lastOp.data, ret |-> lastOp.ret]), 2)

\* ghost: a call has returned ret, or raised exception; overlapped tells whether an
\* update of another caller on the same conversation was in flight during the call
Completed(op, conversation_id, data, ret, exception, overlapped) ==
    [op |-> op, conversation_id |-> conversation_id, data |-> data, pre |-> db,
     ret |-> ret, exception |-> exception, overlapped |-> overlapped, trail |-> Trail]

\* ghost: the callers with an update of the conversation in flight
Updating(conversation_id) ==
    {j \in Callers : calls[j].op = "update" /\ calls[j].conversation_id = conversation_id}

\* context_mgr.get_or_create(conversation_id, customer_id, channel) of caller k, up
\* to its first result: with an id, `await session.execute(select ...)` returns; a row
\* found is returned at once, else the call goes on to its INSERT.  Without an id no
\* SELECT is made and the row is inserted under a fresh uuid.
CallGetOrCreate(k, conversation_id, customer_id, channel) ==
    LET conv == IF conversation_id # "" THEN SelectConversation(db, conversation_id) ELSE None
    IN  /\ calls[k].op = "none"
        /\ opCount' = opCount + 1
        /\ IF conv # None
           THEN /\ lastOp' = Completed("get_or_create", conversation_id, None,
                                       LoadedContext(conv), "", FALSE)
                /\ UNCHANGED <<storeVars, calls>>
           ELSE IF conversation_id = ""
           THEN /\ db' = CommitInsert(db, Conversation(Uuid(generated + 1), customer_id,
                                                       channel))
                /\ applied' = applied @@ (Uuid(generated + 1) :> <<>>)
                /\ generated' = generated + 1
                /\ lastOp' = Completed("get_or_create", conversation_id, None,
                                       CreatedContext(Uuid(generated + 1), customer_id,
                                                      channel), "", FALSE)
                /\ UNCHANGED calls
           ELSE /\ calls' = [calls EXCEPT ![k] =
                                [op |-> "get_or_create", conversation_id |-> conversation_id,
                                 customer_id |-> customer_id, channel |-> channel,
                                 data |-> None, conv |-> None, overlapped |-> FALSE]]
                /\ UNCHANGED <<storeVars, lastOp>>
        /\ UNCHANGED <<pipeVars, fnVars, apiVars>>

\* get_or_create of caller k after a SELECT that found nothing: session.add(conv);
\* await session.commit(); a row stored under the id in the meantime makes the INSERT
\* fail (IntegrityError)
CallGetOrCreateCommit(k) ==
    LET c == calls[k]
    IN  /\ c.op = "get_or_create"
        /\ IF c.conversation_id \in DOMAIN db
           THEN /\ lastOp' = Completed("get_or_create", c.conversation_id, None, None,
                                       "IntegrityError", FALSE)
                /\ UNCHANGED storeVars
           ELSE /\ db' = CommitInsert(db, Conversation(c.conversation_id, c.customer_id,
                                                       c.channel))
                /\ applied' = applied @@ (c.conversation_id :> <<>>)
                /\ UNCHANGED generated
                /\ lastOp' = Completed("get_or_create", c.conversation_id, None,
                                       CreatedContext(c.conversation_id, c.customer_id,
                                                      c.channel), "", FALSE)
        /\ calls' = [calls EXCEPT ![k] = NoCall]
        /\ UNCHANGED <<opCount, pipeVars, fnVars, apiVars>>

\* variant of UpdatedTableOnMiss: a miss stores a fresh record with the turn applied
UpdatedTableOnMiss_Upsert(table, conversation_id, response_data) ==
    CommitInsert(table, UpdatedConversation(Conversation(conversation_id, "", "chat"),
                                            response_data))

\* the table after an update whose SELECT found no row: a warning is logged and the
\* call returns before any write
UpdatedTableOnMiss(table, conversation_id, response_data) == table

\* context_mgr.update(conversation_id, response_data) of caller k, up to the result of
\* `await session.execute(select ...)`: a miss returns, a hit goes on to the commit
CallUpdate(k, conversation_id, response_data) ==
    LET conv == SelectConversation(db, conversation_id)
    IN  /\ calls[k].op = "none"
        /\ opCount' = opCount + 1
        /\ IF conv = None
           THEN /\ db' = UpdatedTableOnMiss(db, conversation_id, response_data)
                /\ lastOp' = Completed("update", conversation_id, response_data, None, "",
                                       FALSE)
                /\ UNCHANGED <<applied, generated, calls>>
           ELSE /\ calls' = [j \in Callers |->
                                IF j = k
                                THEN [op |-> "update", conversation_id |-> conversation_id,
                                      customer_id |-> "", channel |-> "",
                                      data |-> response_data, conv |-> conv,
                                      overlapped |-> Updating(conversation_id) # {}]
                                ELSE IF j \in Updating(conversation_id)
                                THEN [calls[j] EXCEPT !.overlapped = TRUE]
                                ELSE calls[j]]
                /\ UNCHANGED <<storeVars, lastOp>>
        /\ UNCHANGED <<pipeVars, fnVars, apiVars>>

\* update of caller k after its SELECT: the row is rewritten from what the SELECT
\* loaded; await session.commit()
CallUpdateCommit(k) ==
    LET c == calls[k]
    IN  /\ c.op = "update"
        /\ db' = CommitUpdate(db, c.conv, UpdatedConversation(c.conv, c.data))
        /\ applied' = [applied EXCEPT ![c.conversation_id] = Append(@, c.data)]
        /\ lastOp' = Completed("update", c.conversation_id, c.data, None, "", c.overlapped)
        /\ calls' = [calls EXCEPT ![k] = NoCall]
        /\ UNCHANGED <<generated, opCount, pipeVars, fnVars, apiVars>>

\* response_data dicts of the long runs
CapsData ==
    {[customer_message |-> "m1", response_text |-> "t1", intent |-> "unknown",
      dominant_emotion |-> "anger", escalation_flag |-> TRUE, language |-> "ar"],
     [customer_message |-> "m2", response_text |-> "", intent |-> "billing",
      dominant_emotion |-> "neutral", escalation_flag |-> FALSE, language |-> "en"]}

NextCaps ==
    \/ /\ opCount = 0
       /\ CallGetOrCreate(1, "c1", "k1", "chat")
    \/ /\ opCount \in 1..MaxCapTurns
       /\ \E d \in CapsData : CallUpdate(1, "c1", d)
    \/ CallGetOrCreateCommit(1)
    \/ CallUpdateCommit(1)

\* one conversation, MaxCapTurns updates in a row
SpecCaps == Init /\ [][NextCaps]_vars

NextRound ==
    \/ /\ opCount = 0
       /\ CallGetOrCreate(1, "c1", "k1", "chat")
    \/ /\ opCount \in 1..MaxCapTurns
       /\ \/ \E d \in CapsData : CallUpdate(1, "c1", d)
          \/ CallGetOrCreate(1, "c1", "k2", "email")
    \/ CallGetOrCreateCommit(1)
    \/ CallUpdateCommit(1)

\* one conversation: updates in a row, and get_or_create calls between them
SpecRound == Init /\ [][NextRound]_vars

\* response_data dicts of the short runs: every unresolved-like intent and others,
\* both languages, both escalation decisions
StoreData ==
    {[customer_message |-> "m1", response_text |-> "t1", intent |-> "unknown",
      dominant_emotion |-> "anger", escalation_flag |-> TRUE, language |-> "ar"],
     [customer_message |-> "m2", response_text |-> "", intent |-> "billing",
      dominant_emotion |-> "neutral", escalation_flag |-> FALSE, language |-> "en"],
     [customer_message |-> "m1", response_text |-> "t2", intent |-> "unclear",
      dominant_emotion |-> "joy", escalation_flag |-> FALSE, language |-> "en"],
     [customer_message |-> "m2", response_text |-> "t1", intent |-> "unresolved",
      dominant_emotion |-> "distress", escalation_flag |-> FALSE, language |-> "ar"],
     [customer_message |-> "m1", response_text |-> "t2", intent |-> "escalation_request",
      dominant_emotion |-> "neutral", escalation_flag |-> TRUE, language |-> "en"]}

\* callers of get_or_create: (customer_id, channel)
StoreCallers == {<<"k1", "chat">>, <<"k2", "email">>}

\* a call of caller k is made
StoreCall(k) ==
    /\ opCount < MaxStoreOps
    /\ \/ \E id \in {"", "c1"}, who \in StoreCallers :
             CallGetOrCreate(k, id, who[1], who[2])
       \/ \E id \in {"c1", Uuid(1)}, d \in StoreData : CallUpdate(k, id, d)

\* a new call is made by the first caller that has none in flight
NextStore ==
    \E k \in Callers :
        \/ /\ \A j \in Callers : j < k => calls[j].op # "none"
           /\ StoreCall(k)
        \/ CallGetOrCreateCommit(k)
        \/ CallUpdateCommit(k)

\* get_or_create and update calls of NumCallers callers, in any order, on known and
\* unknown identifiers, interleaved at their awaits
SpecStore == Init /\ [][NextStore]_vars

-----------------------------------------------------------------------------
(* Claims about the context store *)

RECURSIVE HistoryOf(_)
\* every history entry the committed updates appended, oldest first
HistoryOf(datas) ==
    IF datas = <<>> THEN <<>>
    ELSE <<[role |-> "customer", text |-> Head(datas).customer_message],
           [role |-> "assistant", text |-> Head(datas).response_text]>> \o HistoryOf(Tail(datas))

IntentsOf(datas) == [i \in 1..Len(datas) |-> datas[i].intent]
EmotionsOf(datas) == [i \in 1..Len(datas) |-> datas[i].dominant_emotion]

\* stored holds exactly the newest entries of full, at most cap of them, oldest first
IsNewestOf(stored, full, cap) ==
    /\ Len(stored) = Min(Len(full), cap)
    /\ \A i \in 1..Len(stored) : stored[i] = full[Len(full) - Len(stored) + i]

\* C6: after any sequence of update calls the stored history holds at most 20 entries,
\* previous_intents and emotion_trend at most 10 each, and each holds exactly the most
\* recently appended entries in the order they were appended.
C6_CapsKeepNewest ==
    \A c \in DOMAIN db :
        /\ Len(db[c].context.history) <= 20
        /\ Len(db[c].context.previous_intents) <= 10
        /\ Len(db[c].context.emotion_trend) <= 10
        /\ IsNewestOf(db[c].context.history, HistoryOf(applied[c]), 20)
        /\ IsNewestOf(db[c].context.previous_intents, IntentsOf(applied[c]), 10)
        /\ IsNewestOf(db[c].context.emotion_trend, EmotionsOf(applied[c]), 10)

\* an eleventh and twelfth update happened: entries were dropped from all three sequences
C6_Witness ==
    /\ "c1" \in DOMAIN db
    /\ Len(applied["c1"]) = 12
    /\ Len(db["c1"].context.history) = 20
    /\ Len(db["c1"].context.previous_intents) = 10
    /\ db["c1"].context.previous_intents[1] # applied["c1"][1].intent

\* C7: each update of a sequence of turns (no update of another caller on the
\* conversation in flight during it) sets unresolved_turns to its previous value plus 1
\* when the turn's intent is unknown, unclear or unresolved, and to 0 for any other
\* intent; the counter is never negative.
C7_UnresolvedCounter ==
    /\ \A c \in DOMAIN db : db[c].context.unresolved_turns >= 0
    /\ (/\ lastOp.op = "update"
        /\ lastOp.conversation_id \in DOMAIN lastOp.pre
        /\ ~lastOp.overlapped) =>
          db[lastOp.conversation_id].context.unresolved_turns =
              IF lastOp.data.intent \in {"unknown", "unclear", "unresolved"}
              THEN lastOp.pre[lastOp.conversation_id].context.unresolved_turns + 1
              ELSE 0

\* an unresolved-like turn raised the counter to 2, and another turn reset it from 1 to 0
C7_Witness ==
    /\ lastOp.op = "update"
    /\ lastOp.conversation_id \in DOMAIN lastOp.pre
    /\ ~lastOp.overlapped
    /\ \/ /\ lastOp.data.intent = "unclear"
          /\ db[lastOp.conversation_id].context.unresolved_turns = 2
       \/ /\ lastOp.data.intent = "billing"
          /\ lastOp.pre[lastOp.conversation_id].context.unresolved_turns = 1
          /\ db[lastOp.conversation_id].context.unresolved_turns = 0

-----------------------------------------------------------------------------
(* Claims about safe_process and run_pipeline *)

\* the local that holds each synchronous agent's outcome
OutputOf(f, agent) ==
    CASE agent = "OCS" -> f.ocs_output
      [] agent = "KFO" -> f.kfo_output
      [] agent = "EIA" -> f.eia_output
      [] agent = "PIR" -> f.pir_output

\* C1: safe_process never raises to its caller: when the agent's process step raises,
\* safe_process returns None; otherwise it returns the result of process unchanged.
C1_SafeProcessNeverRaises ==
    \A r \in Slots :
        /\ frame[r].exception # "AgentError"
        /\ \A agent \in {"OCS", "KFO", "EIA", "PIR"} :
              frame[r].raw[agent] # NotInvoked =>
                  OutputOf(frame[r], agent) =
                      IF frame[r].raw[agent].raises THEN None ELSE frame[r].raw[agent].value

\* one call in which process raised for two agents (the deferred one among them) and
\* returned for two others
C1_Witness ==
    \E r \in Slots :
        /\ pc[r] = "done"
        /\ frame[r].raw["OCS"] = Raised /\ frame[r].ocs_output = None
        /\ frame[r].raw["FAN"] = Raised
        /\ frame[r].raw["EIA"] = Returned(EIAOutput(-80000, "anger", TRUE))
        /\ frame[r].eia_output = EIAOutput(-80000, "anger", TRUE)
        /\ frame[r].raw["PIR"] # NotInvoked /\ frame[r].raw["PIR"] # Raised
        /\ frame[r].pir_output = frame[r].raw["PIR"].value

\* the steps of a call that ran to its return
FullSteps(request) ==
    <<"get_or_create", "ocs", "kfo", "eia">>
        \o (IF request.account_id # "" THEN <<"pir">> ELSE <<>>)
        \o <<"aggregate", "update", "schedule_fan", "return">>

\* C2: an absent outcome from any subset of the generator, knowledge-search, sentiment
\* and anomaly-scan agents never stops run_pipeline: every later agent step is still
\* invoked, the response is aggregated, the conversation is updated once and the
\* deferred feedback step is scheduled.
C2_AbsentNeverStops ==
    \A r \in Slots :
        LET f == frame[r]
        IN  /\ pc[r] # "raised"
            /\ pc[r] \in {"returned", "done"} =>
                  /\ SubSeq(f.steps, 1, Len(FullSteps(f.request))) = FullSteps(f.request)
                  /\ \A agent \in {"OCS", "KFO", "EIA"} : f.raw[agent] # NotInvoked
                  /\ (f.raw["PIR"] # NotInvoked) = (f.request.account_id # "")
                  /\ f.response # None
                  /\ f.updates = 1
                  /\ Len(f.background_tasks) = (IF pc[r] = "returned" THEN 1 ELSE 0)
                  /\ pc[r] = "done" => f.raw["FAN"] # NotInvoked

\* all four synchronous agents failed, and the call still returned a response,
\* updated the conversation and scheduled the feedback step
C2_Witness ==
    \E r \in Slots :
        /\ pc[r] = "returned"
        /\ \A agent \in {"OCS", "KFO", "EIA", "PIR"} :
              frame[r].raw[agent] = Raised /\ OutputOf(frame[r], agent) = None
        /\ frame[r].response.intent = "unknown"
        /\ frame[r].updates = 1
        /\ Len(frame[r].background_tasks) = 1
        /\ db[frame[r].context.conversation_id].context.turn_count = 1

\* C3 (as claimed): no exception escapes run_pipeline, under every interleaving with
\* other concurrently running requests.
C3_NoExceptionEscapes ==
    \A r \in Slots : pc[r] # "raised"

\* C8: for requests on one conversation that do not overlap in time, each completed
\* run_pipeline call updates the conversation exactly once, after aggregation, and
\* increases its turn_count by exactly 1; turn_count never decreases (it is the number
\* of updates committed so far).
C8_OneUpdatePerTurn ==
    /\ \A c \in DOMAIN db : db[c].context.turn_count = Len(applied[c])
    /\ \A r \in Slots :
          LET f == frame[r]
          IN  pc[r] \in {"finish", "returned", "done"} =>
                  /\ f.updates = 1
                  /\ \E i \in 1..(Len(f.steps) - 1) :
                        f.steps[i] = "aggregate" /\ f.steps[i + 1] = "update"
                  /\ Cardinality({i \in 1..Len(f.steps) : f.steps[i] = "update"}) = 1
                  /\ db[f.context.conversation_id].context.turn_count = f.context.turn_count + 1

\* the second turn of conversation c1 completed: turn_count went from 1 to 2
C8_Witness ==
    \E r \in Slots :
        /\ pc[r] = "done"
        /\ frame[r].context.conversation_id = "c1"
        /\ frame[r].context.turn_count = 1
        /\ db["c1"].context.turn_count = 2

\* C9 (as claimed): when requests for the same conversation run concurrently no update
\* is lost: turn_count has grown by one per committed update and the history holds the
\* customer and assistant entries of every committed turn (up to the 20-entry cap).
C9_NoLostUpdate ==
    \A c \in DOMAIN db :
        /\ db[c].context.turn_count = Len(applied[c])
        /\ IsNewestOf(db[c].context.history, HistoryOf(applied[c]), 20)

\* C10 (as claimed): concurrent get_or_create calls with the same caller-supplied
\* conversation_id that has no stored record yet all return a context for that
\* identifier without raising, and one record with that identifier exists afterwards.
C10_ConcurrentCreateSafe ==
    \A r \in Slots :
        (pc[r] \notin {"idle", "select", "create"} /\ frame[r].request.conversation_id # "") =>
            /\ frame[r].exception # "IntegrityError"
            /\ frame[r].context # None
            /\ frame[r].context.conversation_id = frame[r].request.conversation_id
            /\ frame[r].request.conversation_id \in DOMAIN db

-----------------------------------------------------------------------------
(* Claims about the escalation gate and the aggregator *)

\* number of trigger emotions ending the sequence, stated without the loop
TrailingTriggers(emotions) ==
    CHOOSE k \in 0..Len(emotions) :
        /\ \A i \in (Len(emotions) - k + 1)..Len(emotions) : emotions[i] \in {"anger", "distress"}
        /\ k < Len(emotions) => emotions[Len(emotions) - k] \notin {"anger", "distress"}

\* which of the seven checks fire on the harness arguments
Fired(in) ==
    LET ocs == in.ocs_output
        eia == in.eia_output
        pir == in.pir_output
    IN  <<ocs # None /\ ocs.escalation_flag,
          ocs # None /\ ocs.intent = "escalation_request",
          eia # None /\ eia.sentiment_score < -65000,
          eia # None /\ TrailingTriggers(Append(in.context.emotion_trend, eia.dominant_emotion)) >= 2,
          eia # None /\ eia.escalation_flag,
          pir # None /\ \E i \in 1..Len(pir.proactive_alerts) :
                            pir.proactive_alerts[i].severity = "critical",
          in.context.unresolved_turns >= 3>>

\* the reason text of each check on the harness arguments (read only where it fired)
ReasonTexts(in) ==
    LET eia == in.eia_output
        alerts == in.pir_output.proactive_alerts
        first == CHOOSE i \in 1..Len(alerts) :
                     /\ alerts[i].severity = "critical"
                     /\ \A j \in 1..(i - 1) : alerts[j].severity # "critical"
    IN  [i \in 1..7 |->
            CASE i = 1 -> ReasonOcsFlag
              [] i = 2 -> ReasonIntent
              [] i = 3 -> ReasonSentiment(eia.sentiment_score)
              [] i = 4 -> ReasonConsecutive(eia.dominant_emotion,
                              TrailingTriggers(Append(in.context.emotion_trend,
                                                      eia.dominant_emotion)))
              [] i = 5 -> ReasonEiaFlag
              [] i = 6 -> ReasonCritical(alerts[first].alert_type)
              [] i = 7 -> ReasonUnresolved(in.context.unresolved_turns)]

RECURSIVE FiredTexts(_, _)
\* the texts of the fired checks among checks i..7, in the order of the checks
FiredTexts(in, i) ==
    IF i > 7 THEN <<>>
    ELSE (IF Fired(in)[i] THEN <<ReasonTexts(in)[i]>> ELSE <<>>) \o FiredTexts(in, i + 1)

\* C4: _check_escalation returns escalate=true exactly when at least one of the seven
\* checks fires; the reason text holds one reason per fired check, in the fixed order
\* (generator flag, escalation-request intent, sentiment below threshold, consecutive
\* trigger emotion, sentiment agent's flag, critical alert, unresolved turns), joined by
\* " | ", and is null when no check fires.
C4_EscalationReasons ==
    fnOut.fn = "_check_escalation" =>
        /\ fnOut.result.flag = (\E i \in 1..7 : Fired(fnIn)[i])
        /\ fnOut.result.reason =
              IF \E i \in 1..7 : Fired(fnIn)[i]
              THEN Str(Join(" | ", FiredTexts(fnIn, 1)))
              ELSE None

\* all seven checks fired at once, and the text lists all seven reasons in order
C4_Witness ==
    /\ fnOut.fn = "_check_escalation"
    /\ \A i \in 1..7 : Fired(fnIn)[i]
    /\ fnOut.result.reason =
          Str("Customer explicitly requested human agent. | "
              \o "Intent classified as escalation_request. | "
              \o "Sentiment score (-0.65) below threshold (-0.65). | "
              \o "Dominant emotion (anger) persisted for 3 consecutive turns. | "
              \o "Emotional Intelligence Agent triggered escalation. | "
              \o "Critical proactive alert: billing_anomaly. | "
              \o "No resolution after 4 consecutive turns (threshold: 3).")

AllAbsent(in) ==
    /\ in.ocs_output = None
    /\ in.kfo_output = None
    /\ in.eia_output = None
    /\ in.pir_output = None

\* C5: aggregate_outputs with the generator, knowledge-search, sentiment and anomaly-scan
\* outcomes all absent (and no feedback outcome) returns text "", intent "unknown",
\* sentiment 0.0, emotion "neutral", no articles and no alerts, and escalates exactly
\* when the context's unresolved_turns is at least 3.
C5_AllAbsentDefaults ==
    (fnOut.fn = "aggregate_outputs" /\ AllAbsent(fnIn)) =>
        /\ fnOut.result.response_text = ""
        /\ fnOut.result.intent = "unknown"
        /\ fnOut.result.sentiment_score = 0
        /\ fnOut.result.dominant_emotion = "neutral"
        /\ fnOut.result.suggested_faq_articles = <<>>
        /\ fnOut.result.proactive_alerts = <<>>
        /\ fnOut.result.escalation_flag = (fnIn.context.unresolved_turns >= 3)

\* all outcomes absent, unresolved_turns exactly 3 and a trigger-emotion trend in the
\* context: the response escalates, for the unresolved-turns reason alone
C5_Witness ==
    /\ fnOut.fn = "aggregate_outputs"
    /\ AllAbsent(fnIn)
    /\ fnIn.context.unresolved_turns = 3
    /\ fnIn.context.emotion_trend = <<"anger", "anger">>
    /\ fnOut.result.escalation_flag
    /\ fnOut.result.escalation_reason =
          Str("No resolution after 3 consecutive turns (threshold: 3).")

-----------------------------------------------------------------------------
(* Claims about the rate limiter *)

\* the number of admissions that are less than window_seconds old at time t
InWindow(admissions, t) ==
    Cardinality({i \in 1..Len(admissions) : admissions[i] <= t /\ t - admissions[i] < window_seconds})

\* C11: for one client, a request is rejected with status 429 exactly when max_requests of
\* that client's admitted requests are still inside the window at its arrival; once
\* the window has elapsed since those admissions the client is admitted again.
C11_LimitThenResume ==
    lastDispatch.n > 0 =>
        (lastDispatch.status_code = 429) =
            (InWindow(lastDispatch.before, lastDispatch.at) >= max_requests)

\* a client that had used up its ceiling is admitted again after the window elapsed
C11_Witness ==
    /\ lastDispatch.n > max_requests
    /\ lastDispatch.status_code = 0
    /\ Len(lastDispatch.before) >= max_requests
    /\ InWindow(lastDispatch.before, lastDispatch.at - window_seconds) = max_requests

\* C12: under every interleaving of concurrent requests from one client, the number of
\* admitted requests whose timestamps lie inside any trailing window never exceeds
\* max_requests.
C12_CeilingHolds ==
    \A client_ip \in DOMAIN admittedAt :
        \A t \in 0..now : InWindow(admittedAt[client_ip], t) <= max_requests

\* two requests were handed on and neither endpoint has run yet; the client is at its
\* ceiling and the next request was rejected
C12_Witness ==
    /\ \A r \in ApiScenario.slots : pc[r] = "dispatched"
    /\ lastDispatch.status_code = 429
    /\ InWindow(admittedAt[lastDispatch.client_ip], now) = max_requests

\* C13: a rate-limited request never enters the pipeline: no agent is invoked for it and
\* no conversation record is created or changed by it.
\* The step that answers a request 429 leaves every request's position and locals, the
\* conversation table, the count of run_pipeline calls and the queue as they were, and
\* puts no call in flight: nothing is left that a later step could run for the request.
C13_RejectedHasNoEffects ==
    [][(lastDispatch'.n # lastDispatch.n /\ lastDispatch'.status_code = 429) =>
            (/\ pc' = pc /\ frame' = frame
             /\ db' = db /\ applied' = applied /\ admitted' = admitted
             /\ generated' = generated
             /\ escalateCalls' = escalateCalls
             /\ _escalation_queue' = _escalation_queue)]_vars

\* a request to /interact was rejected while a conversation was stored and another
\* request was inside run_pipeline
C13_Witness ==
    /\ lastDispatch.path = "/api/v1/interact"
    /\ lastDispatch.status_code = 429
    /\ DOMAIN db # {}
    /\ \E r \in Slots : pc[r] \notin Resting \cup {"dispatched"}

-----------------------------------------------------------------------------
(* Claims about the escalation queue *)

\* C17 (as claimed): every completed turn whose response has escalation_flag true has an
\* escalation payload for its interaction on the escalation queue.
C17_EscalatedTurnsQueued ==
    \A r \in Slots :
        (pc[r] = "done" /\ frame[r].response.escalation_flag) =>
            \E i \in 1..Len(_escalation_queue) :
                _escalation_queue[i].interaction_id = frame[r].interaction_id

-----------------------------------------------------------------------------
(* Claims about the turns of a conversation and the steps of a request *)

\* the consecutive-emotion reasons among the reasons of a call
ConsecutiveReasons(f) ==
    {i \in 1..Len(f.reasons) :
        \E e \in {"anger", "distress"}, n \in 1..(f.context.turn_count + 1) :
            f.reasons[i] = ReasonConsecutive(e, n)}

\* C14: across the non-overlapping turns of one conversation, with the default
\* configuration: a turn on which the sentiment agent reports a trigger emotion
\* escalates with a consecutive-emotion reason when the turn before it was recorded
\* with a trigger emotion too, and does not fire the consecutive-emotion rule when it
\* is the first turn or follows a turn recorded with a non-trigger emotion.
C14_ConsecutiveEmotionAcrossTurns ==
    \A r \in Slots :
        LET f == frame[r]
            c == f.context.conversation_id
            turns == SubSeq(applied[c], 1, f.context.turn_count)
        IN  (f.response # None /\ f.eia_output # None
                /\ f.eia_output.dominant_emotion \in {"anger", "distress"}) =>
                IF turns # <<>> /\ turns[Len(turns)].dominant_emotion \in {"anger", "distress"}
                THEN /\ f.response.escalation_flag
                     /\ \E i \in 1..Len(f.reasons) :
                           f.reasons[i] =
                               ReasonConsecutive(f.eia_output.dominant_emotion,
                                   TrailingTriggers(Append(EmotionsOf(turns),
                                                           f.eia_output.dominant_emotion)))
                     /\ f.response.escalation_reason = Str(Join(" | ", f.reasons))
                ELSE ConsecutiveReasons(f) = {}

\* the second turn of a conversation reported distress after a first turn recorded with
\* anger, and escalated for that reason alone
C14_Witness ==
    \E r \in Slots :
        /\ pc[r] = "done"
        /\ frame[r].context.turn_count = 1
        /\ applied[frame[r].context.conversation_id][1].dominant_emotion = "anger"
        /\ frame[r].eia_output = EIAOutput(-20000, "distress", FALSE)
        /\ frame[r].response.escalation_flag
        /\ frame[r].reasons = <<ReasonConsecutive("distress", 2)>>

\* C15: within one request the steps occur in the order context load, generator,
\* knowledge search, sentiment, anomaly scan (when not skipped), aggregation, context
\* update, scheduling of the deferred feedback step, return; each agent is invoked
\* after the previous agent's outcome is available and at most once.
C15_StepOrder ==
    \A r \in Slots :
        LET f == frame[r]
            order == FullSteps(f.request) \o <<"fan">>
        IN  f.request # None =>
                /\ Len(f.steps) <= Len(order)
                /\ \A i \in 1..Len(f.steps) : f.steps[i] = order[i]
                /\ \A agent \in Agents :
                      Cardinality({i \in 1..Len(f.log) :
                                      f.log[i].agent = agent /\ f.log[i].event = "agent_started"})
                          = (IF f.raw[agent] # NotInvoked THEN 1 ELSE 0)
                /\ f.raw["KFO"] # NotInvoked => f.raw["OCS"] # NotInvoked
                /\ f.raw["EIA"] # NotInvoked => f.raw["KFO"] # NotInvoked
                /\ f.raw["PIR"] # NotInvoked => f.raw["EIA"] # NotInvoked
                /\ f.raw["FAN"] # NotInvoked => f.response # None

\* a request with an account identifier ran all ten steps
C15_Witness ==
    \E r \in Slots :
        /\ pc[r] = "done"
        /\ frame[r].steps = <<"get_or_create", "ocs", "kfo", "eia", "pir", "aggregate",
                              "update", "schedule_fan", "return", "fan">>

\* the log entries safe_process emitted for an agent in a call
AgentEntries(f, agent) == {i \in 1..Len(f.log) : f.log[i].agent = agent}

\* C16: when the request carries no account identifier the anomaly-scan agent is never
\* invoked for it (it emits no start, completion or failure log) and its outcome is
\* absent; when an account identifier is supplied the agent is invoked exactly once.
C16_AnomalyScanSkipped ==
    \A r \in Slots :
        LET f == frame[r]
        IN  f.request # None =>
                /\ f.request.account_id = "" =>
                      /\ f.raw["PIR"] = NotInvoked
                      /\ f.pir_output = None
                      /\ AgentEntries(f, "PIR") = {}
                      /\ \A i \in 1..Len(f.steps) : f.steps[i] # "pir"
                /\ (f.request.account_id # "" /\ f.response # None) =>
                      /\ f.raw["PIR"] # NotInvoked
                      /\ Cardinality({i \in 1..Len(f.steps) : f.steps[i] = "pir"}) = 1
                      /\ Cardinality({i \in AgentEntries(f, "PIR") :
                                          f.log[i].event = "agent_started"}) = 1

\* a request without an account identifier completed, every other agent having answered
C16_Witness ==
    \E r \in Slots :
        /\ pc[r] = "done"
        /\ frame[r].request.account_id = ""
        /\ frame[r].raw["PIR"] = NotInvoked
        /\ frame[r].ocs_output # None /\ frame[r].kfo_output # None
        /\ frame[r].eia_output # None
        /\ frame[r].response.proactive_alerts = <<>>

\* C18: the deferred feedback step runs only after the response has been computed and
\* returned; neither its result nor its failure changes the response or the stored
\* conversation context, or surfaces as an exception; the response always carries the
\* empty feedback-analysis placeholder.
C18_FeedbackStepIsolated ==
    /\ [](\A r \in Slots :
            LET f == frame[r]
            IN  /\ f.response # None =>
                      f.response.feedback_analysis =
                          [csat_score |-> None, sentiment_trend |-> None, top_issues |-> <<>>,
                           knowledge_gap_flags |-> <<>>]
                /\ f.raw["FAN"] # NotInvoked =>
                      /\ f.response # None
                      /\ f.exception = ""
                      /\ \E i \in 1..Len(f.steps) : f.steps[i] = "return")
    /\ [][\A r \in Slots :
            (frame[r].raw["FAN"] = NotInvoked /\ frame'[r].raw["FAN"] # NotInvoked) =>
                /\ frame'[r].response = frame[r].response
                /\ frame'[r].exception = frame[r].exception
                /\ db' = db]_vars

\* the deferred feedback step failed after an escalated response had been returned
C18_Witness ==
    \E r \in Slots :
        /\ pc[r] = "done"
        /\ frame[r].raw["FAN"] = Raised
        /\ frame[r].response.escalation_flag
        /\ db[frame[r].context.conversation_id].context.turn_count = 1

-----------------------------------------------------------------------------
(* Claims about get_or_create *)

\* C19: get_or_create followed by update and then get_or_create for the same identifier
\* returns a context that reflects the update: turn_count one higher, unresolved_turns
\* recomputed, the new history, intent and emotion entries appended and the sequences
\* trimmed to their caps, and the turn's language and escalation state.
C19_RoundTrip ==
    (/\ lastOp.op = "get_or_create"
     /\ Len(lastOp.trail) = 2
     /\ lastOp.trail[1].op = "get_or_create"
     /\ lastOp.trail[2].op = "update"
     /\ lastOp.trail[1].ret.conversation_id = lastOp.trail[2].conversation_id
     /\ lastOp.conversation_id = lastOp.trail[2].conversation_id) =>
        LET before == lastOp.trail[1].ret
            data == lastOp.trail[2].data
            after == lastOp.ret
        IN  /\ after.conversation_id = before.conversation_id
            /\ after.customer_id = before.customer_id
            /\ after.channel = before.channel
            /\ after.turn_count = before.turn_count + 1
            /\ after.unresolved_turns =
                  (IF data.intent \in {"unknown", "unclear", "unresolved"}
                   THEN before.unresolved_turns + 1 ELSE 0)
            /\ IsNewestOf(after.history,
                          before.history \o HistoryOf(<<data>>), 20)
            /\ IsNewestOf(after.previous_intents,
                          Append(before.previous_intents, data.intent), 10)
            /\ IsNewestOf(after.emotion_trend,
                          Append(before.emotion_trend, data.dominant_emotion), 10)
            /\ after.language = data.language
            /\ after.is_escalated = data.escalation_flag

\* a round trip on a conversation whose sequences were full: the eleventh turn's
\* entries are in, the oldest are gone
C19_Witness ==
    /\ lastOp.op = "get_or_create"
    /\ Len(lastOp.trail) = 2
    /\ lastOp.trail[1].op = "get_or_create"
    /\ lastOp.trail[2].op = "update"
    /\ lastOp.trail[1].ret.turn_count = 10
    /\ lastOp.ret.turn_count = 11
    /\ Len(lastOp.ret.history) = 20
    /\ lastOp.ret.history # lastOp.trail[1].ret.history
    /\ lastOp.ret.language = "ar" /\ lastOp.trail[1].ret.language = "en"

\* C20 (as claimed): get_or_create with an identifier that has a stored record returns that record's
\* stored values and leaves the record unchanged, whatever customer_id and channel the
\* caller passes; with an unknown or missing identifier it creates a record with empty
\* sequences, zero counters and is_escalated false, under the supplied identifier when
\* one was given and a fresh one otherwise.
C20_GetOrCreateFrame ==
    lastOp.op = "get_or_create" =>
        LET id == lastOp.conversation_id
            ret == lastOp.ret
        IN  IF lastOp.exception # ""
            THEN FALSE   \* the call raised: it neither returned a record nor created one
            ELSE IF id # "" /\ id \in DOMAIN lastOp.pre
            THEN LET row == lastOp.pre[id]
                 IN  /\ db = lastOp.pre
                     /\ ret.conversation_id = id
                     /\ ret.customer_id = row.customer_id
                     /\ ret.channel = row.channel
                     /\ ret.language = row.language
                     /\ ret.history = row.context.history
                     /\ ret.previous_intents = row.context.previous_intents
                     /\ ret.emotion_trend = row.context.emotion_trend
                     /\ ret.turn_count = row.context.turn_count
                     /\ ret.unresolved_turns = row.context.unresolved_turns
                     /\ ret.is_escalated = row.is_escalated
            ELSE /\ id # "" => ret.conversation_id = id
                 /\ id = "" => ret.conversation_id \notin DOMAIN lastOp.pre
                 /\ DOMAIN db = DOMAIN lastOp.pre \cup {ret.conversation_id}
                 /\ \A c \in DOMAIN lastOp.pre : db[c] = lastOp.pre[c]
                 /\ db[ret.conversation_id].context =
                       [history |-> <<>>, previous_intents |-> <<>>, emotion_trend |-> <<>>,
                        turn_count |-> 0, unresolved_turns |-> 0]
                 /\ db[ret.conversation_id].is_escalated = FALSE
                 /\ ret.history = <<>> /\ ret.previous_intents = <<>>
                 /\ ret.emotion_trend = <<>>
                 /\ ret.turn_count = 0 /\ ret.unresolved_turns = 0
                 /\ ret.is_escalated = FALSE



\* C21: ContextManager.update for a conversation_id with no stored record changes no
\* stored record, creates none, and returns normally (None) without raising.
C21_UpdateMissIsNoOp ==
    (lastOp.op = "update" /\ lastOp.conversation_id \notin DOMAIN lastOp.pre) =>
        /\ db = lastOp.pre
        /\ DOMAIN db = DOMAIN lastOp.pre
        /\ lastOp.ret = None

\* an update missed while another conversation was stored, and that record is as it was
C21_Witness ==
    /\ lastOp.op = "update"
    /\ lastOp.conversation_id = "c1"
    /\ "c1" \notin DOMAIN lastOp.pre
    /\ Uuid(1) \in DOMAIN lastOp.pre
    /\ db = lastOp.pre

\* C22: in every aggregated response the agent_logs entry of each of the five roles
\* (generator, knowledge search, sentiment, anomaly scan, feedback) is either that
\* agent's serialized output or the fixed {"status": "skipped"} marker.
C22_AgentLogEntries ==
    \A r \in Slots :
        LET f == frame[r]
            logs == f.response.agent_logs
        IN  f.response # None =>
                /\ logs.ocs = (IF f.ocs_output # None THEN f.ocs_output ELSE Skipped)
                /\ logs.kfo = (IF f.kfo_output # None THEN f.kfo_output ELSE Skipped)
                /\ logs.eia = (IF f.eia_output # None THEN f.eia_output ELSE Skipped)
                /\ logs.pir = (IF f.pir_output # None THEN f.pir_output ELSE Skipped)
                /\ \/ logs.fan = Skipped
                   \/ /\ f.raw["FAN"] # NotInvoked
                      /\ f.raw["FAN"].value # None
                      /\ logs.fan = f.raw["FAN"].value

\* C24: every log entry safe_process emits for an invocation (agent_started,
\* agent_completed, agent_failed) carries the interaction identifier of the invocation
\* and the agent role.
C24_LogEntriesCarryIds ==
    \A r \in Slots :
        \A i \in 1..Len(frame[r].log) :
            frame[r].log[i].event \in {"agent_started", "agent_completed", "agent_failed"} =>
                /\ frame[r].log[i].agent \in Agents
                /\ frame[r].log[i].interaction_id = frame[r].interaction_id
                /\ frame[r].log[i].interaction_id # ""

\* C25: after each update the stored is_escalated equals the escalation decision of
\* that turn and the stored language equals that turn's language (both are overwritten,
\* not accumulated).
C25_FlagAndLanguageOverwritten ==
    [][\A r \in Slots :
          (pc[r] = "commit" /\ pc'[r] = "finish") =>
              LET id == frame[r].conv.id
              IN  /\ db'[id].is_escalated = frame[r].response.escalation_flag
                  /\ db'[id].language = frame[r].response.language]_vars

\* C26: for a conversation changed only by non-overlapping updates, history holds
\* min(2 * turn_count, 20) entries, previous_intents and emotion_trend hold
\* min(turn_count, 10) entries each, and history alternates customer, assistant,
\* starting with a customer entry.
C26_LengthsFollowTurnCount ==
    \A c \in DOMAIN db :
        LET ctx == db[c].context
        IN  /\ Len(ctx.history) = Min(2 * ctx.turn_count, 20)
            /\ Len(ctx.previous_intents) = Min(ctx.turn_count, 10)
            /\ Len(ctx.emotion_trend) = Min(ctx.turn_count, 10)
            /\ \A i \in 1..Len(ctx.history) :
                  ctx.history[i].role = IF i % 2 = 1 THEN "customer" ELSE "assistant"

\* twelve turns, the last with an empty reply: the lists are at their caps and the
\* history still ends with an assistant entry
C26_Witness ==
    /\ "c1" \in DOMAIN db
    /\ db["c1"].context.turn_count = 12
    /\ Len(db["c1"].context.history) = 20
    /\ Len(db["c1"].context.previous_intents) = 10
    /\ db["c1"].context.history[20] = [role |-> "assistant", text |-> ""]
    /\ db["c1"].context.history[1].role = "customer"

\* C29: a rejected request adds no timestamp to any client's list: the list of a client
\* holds timestamps of that client's admitted requests only (its newest admissions), so
\* rejected attempts never postpone the next admission.
C29_RejectedNotRecorded ==
    /\ [](\A c \in DOMAIN _requests :
            _requests[c] = LastN(RequestsOf(admittedAt, c), Len(_requests[c])))
    /\ [][(lastDispatch'.n # lastDispatch.n /\ lastDispatch'.status_code = 429) =>
            \A c \in DOMAIN _requests' :
                /\ Len(_requests'[c]) <= Len(RequestsOf(_requests, c))
                /\ \A i \in 1..Len(_requests'[c]) :
                      \E j \in 1..Len(RequestsOf(_requests, c)) :
                          _requests'[c][i] = _requests[c][j]]_vars

\* a client used up its ceiling at time 0, was rejected once before the window elapsed,
\* and is admitted at the moment the two admissions leave the window
C29_Witness ==
    /\ lastDispatch.n = 4
    /\ lastDispatch.client_ip = "ip1"
    /\ lastDispatch.at = window_seconds
    /\ lastDispatch.status_code = 0
    /\ admittedAt = ("ip1" :> <<0, 0, window_seconds>>)
    /\ _requests = ("ip1" :> <<window_seconds>>)

-----------------------------------------------------------------------------
(* Claims about the turns of one conversation (SpecTurns) *)

\* the turns committed on the conversation of call f before f loaded its context
TurnsBefore(f) == SubSeq(applied[f.context.conversation_id], 1, f.context.turn_count)

\* none of the checks 1 to 6 has what it needs to fire on the outcomes of call f
NoOtherRule(f) ==
    /\ f.ocs_output # None =>
          (~f.ocs_output.escalation_flag /\ f.ocs_output.intent # "escalation_request")
    /\ f.eia_output # None =>
          /\ f.eia_output.sentiment_score >= -65000
          /\ ~f.eia_output.escalation_flag
          /\ TrailingTriggers(Append(f.context.emotion_trend,
                                     f.eia_output.dominant_emotion)) < 2
    /\ f.pir_output # None =>
          \A i \in 1..Len(f.pir_output.proactive_alerts) :
              f.pir_output.proactive_alerts[i].severity # "critical"

\* C23: the unresolved-turns rule reads the value loaded before the current turn's
\* update: in a conversation whose turns are all unresolved-like, with no other rule
\* firing, turns 1 to 3 do not escalate and turn 4 is the first that escalates (with
\* the default maximum of 3).
C23_UnresolvedRuleLagsOneTurn ==
    \A r \in Slots :
        LET f == frame[r]
            n == f.context.turn_count + 1
        IN  (/\ f.response # None
             /\ \A i \in 1..(n - 1) :
                   TurnsBefore(f)[i].intent \in {"unknown", "unclear", "unresolved"}
             /\ f.response.intent \in {"unknown", "unclear", "unresolved"}
             /\ NoOtherRule(f)) =>
                /\ f.context.unresolved_turns = n - 1
                /\ f.response.escalation_flag = (n >= 4)
                /\ n >= 4 =>
                      /\ f.reasons = <<ReasonUnresolved(n - 1)>>
                      /\ f.response.escalation_reason = Str(ReasonUnresolved(n - 1))

\* four unresolved-like turns, the first three stored as not escalated, the fourth
\* escalated for the unresolved-turns reason alone
C23_Witness ==
    \E r \in Slots :
        /\ pc[r] = "done"
        /\ frame[r].context.turn_count = 3
        /\ \A i \in 1..3 :
              /\ TurnsBefore(frame[r])[i].intent = "unknown"
              /\ ~TurnsBefore(frame[r])[i].escalation_flag
        /\ frame[r].response.intent = "unknown"
        /\ NoOtherRule(frame[r])
        /\ frame[r].response.escalation_flag
        /\ frame[r].response.escalation_reason =
              Str("No resolution after 3 consecutive turns (threshold: 3).")

\* C27: on a turn whose sentiment outcome is absent the consecutive-emotion rule does
\* not fire and the turn is recorded in emotion_trend as "neutral"; so a sentiment
\* failure between two trigger-emotion turns breaks the streak: the trigger turn that
\* follows it does not fire the rule.
C27_AbsentSentimentBreaksStreak ==
    \A r \in Slots :
        LET f == frame[r]
            c == f.context.conversation_id
        IN  f.response # None =>
                /\ f.eia_output = None =>
                      /\ ConsecutiveReasons(f) = {}
                      /\ f.response.dominant_emotion = "neutral"
                      /\ f.updates = 1 =>
                            /\ applied[c][f.context.turn_count + 1].dominant_emotion = "neutral"
                            /\ db[c].context.emotion_trend =
                                  Append(f.context.emotion_trend, "neutral")
                /\ (/\ f.eia_output # None
                    /\ f.context.turn_count >= 1
                    /\ f.raw["EIA"] # NotInvoked
                    /\ TurnsBefore(f)[f.context.turn_count].dominant_emotion = "neutral") =>
                      ConsecutiveReasons(f) = {}

\* distress, then a turn on which the sentiment agent failed, then distress again: the
\* third turn did not escalate, and the stored trend is distress, neutral, distress
C27_Witness ==
    \E r \in Slots :
        /\ pc[r] = "done"
        /\ frame[r].context.turn_count = 2
        /\ frame[r].context.emotion_trend = <<"distress", "neutral">>
        /\ frame[r].eia_output = EIAOutput(-20000, "distress", FALSE)
        /\ ~frame[r].response.escalation_flag
        /\ db["c1"].context.emotion_trend = <<"distress", "neutral", "distress">>

\* a committed turn on which the generator produced nothing: intent "unknown", no reply
FailedGeneratorTurn(data) == data.intent = "unknown" /\ data.response_text = ""

\* C28: a turn whose generator outcome is absent is recorded with intent "unknown" and
\* raises unresolved_turns by 1; after three consecutive failed-generator turns the
\* next turn escalates with the unresolved-turns reason, whatever the agents return
\* on it.
C28_FailedGeneratorCountsUnresolved ==
    \A r \in Slots :
        LET f == frame[r]
            c == f.context.conversation_id
            tc == f.context.turn_count
        IN  f.response # None =>
                /\ f.ocs_output = None =>
                      /\ f.response.intent = "unknown"
                      /\ f.response.response_text = ""
                      /\ f.updates = 1 =>
                            /\ FailedGeneratorTurn(applied[c][tc + 1])
                            /\ db[c].context.previous_intents =
                                  Append(f.context.previous_intents, "unknown")
                            /\ db[c].context.unresolved_turns = f.context.unresolved_turns + 1
                /\ (tc >= 3 /\ \A i \in (tc - 2)..tc : FailedGeneratorTurn(TurnsBefore(f)[i])) =>
                      /\ f.context.unresolved_turns >= 3
                      /\ f.response.escalation_flag
                      /\ f.reasons # <<>>
                      /\ f.reasons[Len(f.reasons)] = ReasonUnresolved(f.context.unresolved_turns)
                      /\ f.response.escalation_reason = Str(Join(" | ", f.reasons))

\* three failed-generator turns, none escalated, then a turn on which the generator
\* resolved the intent and no other rule fired: it escalated all the same
C28_Witness ==
    \E r \in Slots :
        /\ pc[r] = "done"
        /\ frame[r].context.turn_count = 3
        /\ \A i \in 1..3 :
              /\ FailedGeneratorTurn(TurnsBefore(frame[r])[i])
              /\ ~TurnsBefore(frame[r])[i].escalation_flag
        /\ frame[r].ocs_output = OCSOutput("t2", "billing", FALSE, "en")
        /\ frame[r].eia_output = EIAOutput(30000, "joy", FALSE)
        /\ frame[r].response.escalation_flag
        /\ frame[r].reasons = <<ReasonUnresolved(3)>>
        /\ db["c1"].context.unresolved_turns = 0

-----------------------------------------------------------------------------
(* Claims about the sentiment agent and the gate *)

\* C30: for every sentiment outcome the sentiment agent itself produces, whenever the
\* gate's sentiment-threshold check (check 3) fires, the outcome's own escalation flag
\* is set, so the sentiment-agent-flag reason accompanies every sentiment-threshold
\* reason.
C30_ThresholdImpliesAgentFlag ==
    /\ fnOut.fn = "EIAAgent.process" =>
          (fnOut.result.sentiment_score < -65000 => fnOut.result.escalation_flag)
    /\ (fnOut.fn = "_check_escalation" /\ fnOut.result.eia_output # None) =>
          LET out == fnOut.result.eia_output
              reasons == fnOut.result.reasons
          IN  (\E i \in 1..Len(reasons) :
                   reasons[i] = "Sentiment score (" \o Fmt2(out.sentiment_score)
                                    \o ") below threshold (-0.65).") =>
                  /\ out.escalation_flag
                  /\ \E j \in 1..Len(reasons) :
                        reasons[j] = "Emotional Intelligence Agent triggered escalation."

\* the agent's score was -0.6501 after rounding: the gate's threshold check fired, and
\* the agent's flag reason stands next to it
C30_Witness ==
    /\ fnOut.fn = "_check_escalation"
    /\ fnIn.residue = 1
    /\ fnOut.result.eia_output.sentiment_score = -65010
    /\ fnOut.result.eia_output.dominant_emotion = "anger"
    /\ fnOut.result.eia_output.escalation_flag
    /\ fnOut.result.reasons =
          <<"Sentiment score (-0.65) below threshold (-0.65).",
            "Emotional Intelligence Agent triggered escalation.">>
====
